---- MODULE Spec2Model ----
(***************************************************************************)
(* Capture session orchestration of opensnipping (src-tauri):               *)
(*   - the session state machine            (state.rs)                      *)
(*   - the deterministic fake backend       (capture/fake/backend.rs)       *)
(*   - the Linux backend and its pipeline   (capture/linux/backend.rs,      *)
(*                                           capture/linux/pipeline.rs)     *)
(*   - the IPC commands over AppState       (ipc/commands.rs, lib.rs)       *)
(*   - encoder negotiation                  (capture/linux/encoding.rs)     *)
(*   - configuration validation             (config.rs)                     *)
(* Each component has its own specification (SpecSM, SpecFake, SpecLinux,   *)
(* SpecOrch); the variables of the other components stay at their initial   *)
(* values there.  SpecLinuxOrch is the union of SpecLinux and SpecOrch,     *)
(* SpecBackends the union of SpecFake and SpecLinux.  SpecSession runs the  *)
(* session commands with more configurations, SpecFakeShot adds             *)
(* capture_screenshot to SpecFake, and SpecEncoding, SpecScreenshot,        *)
(* SpecValidate and SpecGraph call pure functions with every input of a    *)
(* bounded set.  SpecFakeRace runs the fake backend's operations atomic    *)
(* access by atomic access on two threads; SpecStop unfolds the wait of    *)
(* RecordingPipeline::stop message by message (SpecStopFair adds the       *)
(* fairness of a running thread).  The events of the session commands      *)
(* (events.rs, ipc/emit.rs) are outputs of their steps.                    *)
(***************************************************************************)
EXTENDS Integers, Sequences, FiniteSets, TLC

VARIABLES
    state_machine,  \* StateMachine { state, last_error } (AppState.state_machine)
    call,           \* SpecSM: the last StateMachine call: operation, machine before, return value
    fake,           \* FakeCaptureBackend: the shared (Arc) fields
    fake_call,      \* SpecFake: the last backend call: operation, backend before, return value, history
    now,            \* monotonic clock read by Instant::now()
    session,        \* LinuxCaptureBackend.session slot (SpecLinux)
    recording,      \* LinuxCaptureBackend.recording slot (SpecLinux)
    pipelines,      \* every RecordingPipeline built so far, by identity
    registry,       \* the GStreamer engine and its element registry (SpecEncoding)
    pc,             \* per task: the suspension point the task is at
    frame,          \* per task: the locals of the call in progress
    ret,            \* what the step just taken returned: task, operation, return value
    config,         \* AppState.config
    selection,      \* AppState.selection
    backend,        \* AppState.backend
    component       \* which component the behaviour exercises (fixed by Init)

smVars    == <<state_machine, call>>
fakeVars  == <<fake, fake_call, now>>
taskVars  == <<pc, frame, ret>>
linuxVars == <<session, recording, pipelines, registry>>
appVars   == <<config, selection, backend>>
vars == <<state_machine, call, fake, fake_call, now, session, recording,
          pipelines, registry, pc, frame, ret, config, selection, backend, component>>

\* Option<T>: None, or Some(x)
None == <<>>
Some(x) == <<x>>
is_some(o) == o # None
unwrap(o) == o[1]
unwrap_or(o, d) == IF is_some(o) THEN unwrap(o) ELSE d

(***************************************************************************)
(* state.rs                                                                *)
(***************************************************************************)
CaptureState == {"Idle", "Selecting", "Recording", "Paused", "Finalizing", "Error"}

ErrorCode == {"PermissionDenied", "PortalError", "EncoderUnavailable",
              "PipelineError", "IoError", "InvalidConfig", "Unknown"}

\* the messages the model's callers pass to set_error
Messages == {"m1", "m2"}

CaptureError == [code : ErrorCode, message : Messages]

new == [state |-> "Idle", last_error |-> None]

\* mutants of the transition table
valid_plus_idle_recording(from, to) ==
    \/ <<from, to>> \in {<<"Idle", "Selecting">>, <<"Idle", "Error">>,
                         <<"Selecting", "Recording">>, <<"Selecting", "Idle">>,
                         <<"Selecting", "Error">>,
                         <<"Recording", "Paused">>, <<"Recording", "Finalizing">>,
                         <<"Recording", "Error">>,
                         <<"Paused", "Recording">>, <<"Paused", "Finalizing">>,
                         <<"Paused", "Error">>,
                         <<"Finalizing", "Idle">>, <<"Finalizing", "Error">>,
                         <<"Error", "Idle">>,
                         <<"Idle", "Recording">>}
    \/ from = to

valid_minus_paused_finalizing(from, to) ==
    \/ <<from, to>> \in {<<"Idle", "Selecting">>, <<"Idle", "Error">>,
                         <<"Selecting", "Recording">>, <<"Selecting", "Idle">>,
                         <<"Selecting", "Error">>,
                         <<"Recording", "Paused">>, <<"Recording", "Finalizing">>,
                         <<"Recording", "Error">>,
                         <<"Paused", "Recording">>,
                         <<"Paused", "Error">>,
                         <<"Finalizing", "Idle">>, <<"Finalizing", "Error">>,
                         <<"Error", "Idle">>}
    \/ from = to

valid_without_same_state(from, to) ==
    <<from, to>> \in {<<"Idle", "Selecting">>, <<"Idle", "Error">>,
                      <<"Selecting", "Recording">>, <<"Selecting", "Idle">>,
                      <<"Selecting", "Error">>,
                      <<"Recording", "Paused">>, <<"Recording", "Finalizing">>,
                      <<"Recording", "Error">>,
                      <<"Paused", "Recording">>, <<"Paused", "Finalizing">>,
                      <<"Paused", "Error">>,
                      <<"Finalizing", "Idle">>, <<"Finalizing", "Error">>,
                      <<"Error", "Idle">>}

valid_minus_error_idle(from, to) ==
    \/ <<from, to>> \in {<<"Idle", "Selecting">>, <<"Idle", "Error">>,
                         <<"Selecting", "Recording">>, <<"Selecting", "Idle">>,
                         <<"Selecting", "Error">>,
                         <<"Recording", "Paused">>, <<"Recording", "Finalizing">>,
                         <<"Recording", "Error">>,
                         <<"Paused", "Recording">>, <<"Paused", "Finalizing">>,
                         <<"Paused", "Error">>,
                         <<"Finalizing", "Idle">>, <<"Finalizing", "Error">>}
    \/ from = to

\* the match of StateMachine::transition
valid(from, to) ==
    \/ <<from, to>> \in {<<"Idle", "Selecting">>, <<"Idle", "Error">>,
                         <<"Selecting", "Recording">>, <<"Selecting", "Idle">>,
                         <<"Selecting", "Error">>,
                         <<"Recording", "Paused">>, <<"Recording", "Finalizing">>,
                         <<"Recording", "Error">>,
                         <<"Paused", "Recording">>, <<"Paused", "Finalizing">>,
                         <<"Paused", "Error">>,
                         <<"Finalizing", "Idle">>, <<"Finalizing", "Error">>,
                         <<"Error", "Idle">>}
    \/ from = to

Ok(v) == [ok |-> TRUE, value |-> v]
Err(e) == [ok |-> FALSE, error |-> e]

TransitionError(from, to) ==
    [from |-> from, to |-> to, message |-> <<"Cannot transition from", from, "to", to>>]

\* mutant: a successful transition keeps the recorded error
transition_keeps_error(sm, to) ==
    IF valid(sm.state, to)
    THEN [sm |-> [state |-> to, last_error |-> sm.last_error], ret |-> Ok(to)]
    ELSE [sm |-> sm, ret |-> Err(TransitionError(sm.state, to))]

\* StateMachine::transition: the machine after the call and the value returned
transition(sm, to) ==
    IF valid(sm.state, to)
    THEN [sm |-> [state |-> to,
                  last_error |-> IF to # "Error" THEN None ELSE sm.last_error],
          ret |-> Ok(to)]
    ELSE [sm |-> sm, ret |-> Err(TransitionError(sm.state, to))]

start_selecting(sm)   == transition(sm, "Selecting")
cancel_selection(sm)  == transition(sm, "Idle")
begin_recording(sm)   == transition(sm, "Recording")
pause(sm)             == transition(sm, "Paused")
resume(sm)            == transition(sm, "Recording")
stop(sm)              == transition(sm, "Finalizing")
finalize_complete(sm) == transition(sm, "Idle")
reset(sm)             == transition(sm, "Idle")

\* mutant: set_error keeps the error recorded first
set_error_keeps_first(sm, error) ==
    [sm |-> [state |-> "Error",
             last_error |-> IF is_some(sm.last_error) THEN sm.last_error ELSE Some(error)],
     ret |-> "Error"]

\* StateMachine::set_error
set_error(sm, error) ==
    [sm |-> [state |-> "Error", last_error |-> Some(error)], ret |-> "Error"]

\* the eight public transition operations, by name
TransitionOps == {"start_selecting", "cancel_selection", "begin_recording", "pause",
                  "resume", "stop", "finalize_complete", "reset"}

Apply(op, sm) ==
    CASE op = "start_selecting"   -> start_selecting(sm)
      [] op = "cancel_selection"  -> cancel_selection(sm)
      [] op = "begin_recording"   -> begin_recording(sm)
      [] op = "pause"             -> pause(sm)
      [] op = "resume"            -> resume(sm)
      [] op = "stop"              -> stop(sm)
      [] op = "finalize_complete" -> finalize_complete(sm)
      [] op = "reset"             -> reset(sm)

(***************************************************************************)
(* Tasks: the concurrent callers of the backend and of the commands        *)
(***************************************************************************)
\* two concurrent callers
Tasks == {"a", "b"}

NoFrame == [op |-> "none"]
NoRet == [task |-> "none", op |-> "none", result |-> [ok |-> TRUE, value |-> "none"]]

TasksIdle ==
    /\ pc = [t \in Tasks |-> "idle"]
    /\ frame = [t \in Tasks |-> NoFrame]
    /\ ret = NoRet

SMIdle ==
    /\ state_machine = new
    /\ call = [op |-> "new", arg |-> None, pre |-> new, ret |-> Ok("Idle")]

FakeIdle ==
    /\ fake = None
    /\ fake_call = None
    /\ now = 0

LinuxIdle ==
    /\ session = None
    /\ recording = None
    /\ pipelines = <<>>
    /\ registry = None

AppIdle ==
    /\ config = None
    /\ selection = None
    /\ backend = None

(***************************************************************************)
(* SpecSM: one StateMachine driven through its public operations           *)
(***************************************************************************)
InitSM ==
    /\ component = "state_machine"
    /\ SMIdle /\ FakeIdle /\ LinuxIdle /\ TasksIdle /\ AppIdle

SMCall(op, arg, r) ==
    /\ state_machine' = r.sm
    /\ call' = [op |-> op, arg |-> arg, pre |-> state_machine, ret |-> r.ret]
    /\ UNCHANGED <<fakeVars, linuxVars, taskVars, appVars, component>>

SM_start_selecting   == SMCall("start_selecting", None, start_selecting(state_machine))
SM_cancel_selection  == SMCall("cancel_selection", None, cancel_selection(state_machine))
SM_begin_recording   == SMCall("begin_recording", None, begin_recording(state_machine))
SM_pause             == SMCall("pause", None, pause(state_machine))
SM_resume            == SMCall("resume", None, resume(state_machine))
SM_stop              == SMCall("stop", None, stop(state_machine))
SM_finalize_complete == SMCall("finalize_complete", None, finalize_complete(state_machine))
SM_reset             == SMCall("reset", None, reset(state_machine))
SM_set_error ==
    \E error \in CaptureError :
        SMCall("set_error", Some(error), set_error(state_machine, error))

NextSM ==
    \/ SM_start_selecting
    \/ SM_cancel_selection
    \/ SM_begin_recording
    \/ SM_pause
    \/ SM_resume
    \/ SM_stop
    \/ SM_finalize_complete
    \/ SM_reset
    \/ SM_set_error

SpecSM == InitSM /\ [][NextSM]_vars

(***************************************************************************)
(* Properties of the state machine                                         *)
(***************************************************************************)
\* the transition table of the design (from -> to), without the same-state rule
TableEdges == {<<"Idle", "Selecting">>, <<"Idle", "Error">>,
               <<"Selecting", "Recording">>, <<"Selecting", "Idle">>,
               <<"Selecting", "Error">>,
               <<"Recording", "Paused">>, <<"Recording", "Finalizing">>,
               <<"Recording", "Error">>,
               <<"Paused", "Recording">>, <<"Paused", "Finalizing">>,
               <<"Paused", "Error">>,
               <<"Finalizing", "Idle">>, <<"Finalizing", "Error">>,
               <<"Error", "Idle">>}

\* the documented target state of each public transition operation
Target == [start_selecting   |-> "Selecting",
           cancel_selection  |-> "Idle",
           begin_recording   |-> "Recording",
           pause             |-> "Paused",
           resume            |-> "Recording",
           stop              |-> "Finalizing",
           finalize_complete |-> "Idle",
           reset             |-> "Idle"]

\* C1: a public transition operation whose target t differs from the current
\* state s and whose pair (s,t) is no edge of the table returns a
\* TransitionError with from = s and to = t, and leaves state() and
\* last_error() as they were.
C1_RejectedTransitionChangesNothing ==
    (/\ call.op \in TransitionOps
     /\ Target[call.op] # call.pre.state
     /\ <<call.pre.state, Target[call.op]>> \notin TableEdges)
    => /\ ~call.ret.ok
       /\ call.ret.error.from = call.pre.state
       /\ call.ret.error.to = Target[call.op]
       /\ state_machine.state = call.pre.state
       /\ state_machine.last_error = call.pre.last_error

\* a pause called in Error, with an error recorded, was rejected
C1_Witness ==
    /\ call.op = "pause"
    /\ call.pre.state = "Error"
    /\ is_some(call.pre.last_error)
    /\ ~call.ret.ok
    /\ state_machine = call.pre

\* the edges a public transition operation can request
RequestableEdges == {<<"Idle", "Selecting">>, <<"Selecting", "Recording">>,
                     <<"Selecting", "Idle">>, <<"Recording", "Paused">>,
                     <<"Recording", "Finalizing">>, <<"Paused", "Recording">>,
                     <<"Paused", "Finalizing">>, <<"Finalizing", "Idle">>,
                     <<"Error", "Idle">>}

\* C2: for every requestable edge (s,t) of the table, the operation that
\* targets t, called in s, returns Ok(t) and state() is t afterwards.
C2_TableEdgeSucceeds ==
    (/\ call.op \in TransitionOps
     /\ <<call.pre.state, Target[call.op]>> \in RequestableEdges)
    => /\ call.ret = Ok(Target[call.op])
       /\ state_machine.state = Target[call.op]

\* stop called in Paused moved the machine to Finalizing
C2_Witness ==
    /\ call.op = "stop"
    /\ call.pre.state = "Paused"
    /\ call.ret = Ok("Finalizing")
    /\ state_machine.state = "Finalizing"

\* C3: set_error, called in any state, ends with state() = Error and
\* last_error() equal to the error of that call (replacing an earlier one),
\* and returns Error: it never fails.
C3_SetErrorAlwaysRecords ==
    call.op = "set_error"
    => /\ state_machine.state = "Error"
       /\ state_machine.last_error = call.arg
       /\ call.ret = "Error"

\* a set_error called in Error replaced a different recorded error
C3_Witness ==
    /\ call.op = "set_error"
    /\ call.pre.state = "Error"
    /\ is_some(call.pre.last_error)
    /\ call.pre.last_error # call.arg
    /\ state_machine.last_error = call.arg

\* C4: after any sequence of public operations from new(), last_error() is
\* present exactly when state() is Error.
C4_ErrorPresentIffErrorState ==
    is_some(state_machine.last_error) <=> state_machine.state = "Error"

\* a reset called in Error entered Idle and cleared the recorded error
C4_Witness ==
    /\ call.op = "reset"
    /\ call.pre.state = "Error"
    /\ is_some(call.pre.last_error)
    /\ state_machine = [state |-> "Idle", last_error |-> None]

\* C5: a public transition operation whose target equals the current state
\* succeeds, returns that state and leaves state() unchanged.
C5_SameStateIsNoOp ==
    (/\ call.op \in TransitionOps
     /\ Target[call.op] = call.pre.state)
    => /\ call.ret = Ok(call.pre.state)
       /\ state_machine.state = call.pre.state

\* a pause called in Paused succeeded and left the machine Paused
C5_Witness ==
    /\ call.op = "pause"
    /\ call.pre.state = "Paused"
    /\ call.ret = Ok("Paused")
    /\ state_machine.state = "Paused"

\* the machines reachable from those of S by at most n transition operations
RECURSIVE ReachableBy(_, _)
ReachableBy(S, n) ==
    IF n = 0 THEN S
    ELSE ReachableBy(S \cup {Apply(op, sm).sm : op \in TransitionOps, sm \in S}, n - 1)

\* C6: no state is terminal: from every reachable state some finite sequence
\* of public operations leads back to Idle (here: of transition operations
\* alone, at most one per state); and reset called in Error yields Idle, where
\* a start_selecting succeeds.
C6_IdleStaysReachable ==
    /\ \E sm \in ReachableBy({state_machine}, Cardinality(CaptureState)) :
          sm.state = "Idle"
    /\ state_machine.state = "Error"
       => /\ reset(state_machine).ret = Ok("Idle")
          /\ reset(state_machine).sm.state = "Idle"
          /\ start_selecting(reset(state_machine).sm).ret = Ok("Selecting")

\* the machine is in Error after a set_error called while Finalizing
C6_Witness ==
    /\ call.op = "set_error"
    /\ call.pre.state = "Finalizing"
    /\ state_machine.state = "Error"

(***************************************************************************)
(* capture/mod.rs, config.rs: the values exchanged with a backend          *)
(***************************************************************************)
PermissionDenied(msg)  == [msg |-> msg, kind |-> "PermissionDenied"]
PortalError(msg)       == [msg |-> msg, kind |-> "PortalError"]
NoSourceAvailable(msg) == [msg |-> msg, kind |-> "NoSourceAvailable"]
NotSupported(msg)      == [msg |-> msg, kind |-> "NotSupported"]
Internal(msg)          == [msg |-> msg, kind |-> "Internal"]

CaptureConfig(fps, audio, container, output_path) ==
    [source |-> "Screen", fps |-> fps, include_cursor |-> TRUE, audio |-> audio,
     container |-> container, output_path |-> output_path]

AudioConfig(system, mic) == [system |-> system, mic |-> mic]

\* the configurations the callers pass that validate() accepts
ValidConfigs ==
    {CaptureConfig(30, AudioConfig(FALSE, FALSE), "Mp4", "/tmp/test.mp4"),
     CaptureConfig(60, AudioConfig(TRUE, TRUE), "Mkv", "/tmp/other.mkv")}

SelectionResult(node_id, stream_fd, width, height) ==
    [node_id |-> node_id, stream_fd |-> stream_fd, width |-> width, height |-> height]

\* the selections the callers pass to a backend
Selections ==
    {SelectionResult(42, None, Some(1920), Some(1080)),
     SelectionResult(99, Some(7), None, None)}

RecordingResult(path, duration_ms, width, height) ==
    [path |-> path, duration_ms |-> duration_ms, width |-> width, height |-> height]

(***************************************************************************)
(* capture/fake/backend.rs                                                 *)
(***************************************************************************)
FakeBackend(should_succeed, error_type) ==
    [should_succeed |-> should_succeed,
     error_type |-> error_type,
     fake_node_id |-> 42,
     selection_count |-> 0,
     cancel_count |-> 0,
     is_recording |-> FALSE,
     is_paused |-> FALSE,
     recording_start |-> None,
     recording_output_path |-> None,
     start_recording_count |-> 0,
     stop_recording_count |-> 0,
     pause_recording_count |-> 0,
     resume_recording_count |-> 0]

Fake_new               == FakeBackend(TRUE, "PermissionDenied")
Fake_succeeding        == [Fake_new EXCEPT !.should_succeed = TRUE]
Fake_permission_denied ==
    [Fake_new EXCEPT !.should_succeed = FALSE, !.error_type = "PermissionDenied"]
Fake_portal_error      ==
    [Fake_new EXCEPT !.should_succeed = FALSE, !.error_type = "PortalError"]

Fake_set_should_succeed(fb, succeed) == [fb EXCEPT !.should_succeed = succeed]
Fake_set_node_id(fb, node_id) == [fb EXCEPT !.fake_node_id = node_id]

\* the error a failing fake returns, with the message of the operation
FakeConfiguredError(fb, denied, portal, nosource) ==
    CASE fb.error_type = "PermissionDenied" -> PermissionDenied(denied)
      [] fb.error_type = "PortalError"      -> PortalError(portal)
      [] fb.error_type = "NoSource"         -> NoSourceAvailable(nosource)

Fake_request_selection(fb, cfg) ==
    LET counted == [fb EXCEPT !.selection_count = @ + 1] IN
    IF counted.should_succeed
    THEN [fb |-> counted,
          ret |-> Ok(SelectionResult(counted.fake_node_id, None, Some(1920), Some(1080)))]
    ELSE [fb |-> counted,
          ret |-> Err(FakeConfiguredError(counted, "User cancelled",
                                          "Portal unavailable", "No display found"))]

ScreenshotResult(path, width, height) == [width |-> width, height |-> height, path |-> path]

\* mutant: a screenshot that fails ends the recording
Fake_capture_screenshot_ends_recording(fb, sel, output_path, save_ok) ==
    IF ~fb.should_succeed
    THEN [fb |-> [fb EXCEPT !.is_recording = FALSE],
          ret |-> Err(FakeConfiguredError(fb, "Screenshot permission denied",
                                          "Portal unavailable for screenshot",
                                          "No display for screenshot"))]
    ELSE LET width == unwrap_or(sel.width, 100)
             height == unwrap_or(sel.height, 100)
         IN IF ~save_ok
            THEN [fb |-> fb, ret |-> Err(Internal("Failed to save placeholder PNG"))]
            ELSE [fb |-> fb, ret |-> Ok(ScreenshotResult(output_path, width, height))]

\* FakeCaptureBackend::capture_screenshot, with save_ok the answer of
\* img.save(output_path)
Fake_capture_screenshot(fb, sel, output_path, save_ok) ==
    IF ~fb.should_succeed
    THEN [fb |-> fb,
          ret |-> Err(FakeConfiguredError(fb, "Screenshot permission denied",
                                          "Portal unavailable for screenshot",
                                          "No display for screenshot"))]
    ELSE LET width == unwrap_or(sel.width, 100)
             height == unwrap_or(sel.height, 100)
         IN IF ~save_ok
            THEN [fb |-> fb, ret |-> Err(Internal("Failed to save placeholder PNG"))]
            ELSE [fb |-> fb, ret |-> Ok(ScreenshotResult(output_path, width, height))]

Fake_cancel_selection(fb) ==
    [fb |-> [fb EXCEPT !.cancel_count = @ + 1], ret |-> Ok("unit")]

\* mutant: a second start_recording restarts the recording
Fake_start_recording_restarts(fb, sel, cfg, t) ==
    LET counted == [fb EXCEPT !.start_recording_count = @ + 1] IN
    IF ~counted.should_succeed
    THEN [fb |-> counted,
          ret |-> Err(FakeConfiguredError(counted, "Recording permission denied",
                                          "Recording portal error",
                                          "No source for recording"))]
    ELSE [fb |-> [counted EXCEPT !.is_recording = TRUE,
                                 !.recording_start = Some(t),
                                 !.recording_output_path = Some(cfg.output_path)],
          ret |-> IF counted.is_recording
                  THEN Err(Internal("Recording already in progress"))
                  ELSE Ok("unit")]

\* mutant: the recording state is stored before the configured outcome is
\* looked at
Fake_start_recording_marks_first(fb, sel, cfg, t) ==
    LET counted == [fb EXCEPT !.start_recording_count = @ + 1] IN
    IF counted.is_recording
    THEN [fb |-> counted,
          ret |-> IF counted.should_succeed
                  THEN Err(Internal("Recording already in progress"))
                  ELSE Err(FakeConfiguredError(counted, "Recording permission denied",
                                               "Recording portal error",
                                               "No source for recording"))]
    ELSE [fb |-> [counted EXCEPT !.is_recording = TRUE,
                                 !.recording_start = Some(t),
                                 !.recording_output_path = Some(cfg.output_path)],
          ret |-> IF counted.should_succeed
                  THEN Ok("unit")
                  ELSE Err(FakeConfiguredError(counted, "Recording permission denied",
                                               "Recording portal error",
                                               "No source for recording"))]

\* FakeCaptureBackend::start_recording, with t the value of Instant::now()
Fake_start_recording(fb, sel, cfg, t) ==
    LET counted == [fb EXCEPT !.start_recording_count = @ + 1] IN
    IF ~counted.should_succeed
    THEN [fb |-> counted,
          ret |-> Err(FakeConfiguredError(counted, "Recording permission denied",
                                          "Recording portal error",
                                          "No source for recording"))]
    ELSE IF counted.is_recording
    THEN [fb |-> counted, ret |-> Err(Internal("Recording already in progress"))]
    ELSE [fb |-> [counted EXCEPT !.is_recording = TRUE,
                                 !.recording_start = Some(t),
                                 !.recording_output_path = Some(cfg.output_path)],
          ret |-> Ok("unit")]

\* mutant: stop_recording that reports the default path
Fake_stop_recording_default_path(fb, t) ==
    LET counted == [fb EXCEPT !.stop_recording_count = @ + 1] IN
    IF ~counted.is_recording
    THEN [fb |-> counted, ret |-> Err(Internal("No recording in progress"))]
    ELSE LET duration_ms == IF is_some(counted.recording_start)
                            THEN t - unwrap(counted.recording_start) ELSE 0
         IN [fb |-> [counted EXCEPT !.recording_output_path = None,
                                    !.is_recording = FALSE,
                                    !.is_paused = FALSE,
                                    !.recording_start = None],
             ret |-> Ok(RecordingResult("/tmp/fake_recording.mp4", duration_ms,
                                        1920, 1080))]

\* FakeCaptureBackend::stop_recording, with t the time at which elapsed() is read
Fake_stop_recording(fb, t) ==
    LET counted == [fb EXCEPT !.stop_recording_count = @ + 1] IN
    IF ~counted.is_recording
    THEN [fb |-> counted, ret |-> Err(Internal("No recording in progress"))]
    ELSE LET duration_ms == IF is_some(counted.recording_start)
                            THEN t - unwrap(counted.recording_start) ELSE 0
             output_path == IF is_some(counted.recording_output_path)
                            THEN unwrap(counted.recording_output_path)
                            ELSE "/tmp/fake_recording.mp4"
         IN [fb |-> [counted EXCEPT !.recording_output_path = None,
                                    !.is_recording = FALSE,
                                    !.is_paused = FALSE,
                                    !.recording_start = None],
             ret |-> Ok(RecordingResult(output_path, duration_ms, 1920, 1080))]

\* mutant: pause_recording that accepts a paused recording
Fake_pause_recording_idempotent(fb) ==
    LET counted == [fb EXCEPT !.pause_recording_count = @ + 1] IN
    IF ~counted.is_recording
    THEN [fb |-> counted, ret |-> Err(Internal("No recording in progress"))]
    ELSE [fb |-> [counted EXCEPT !.is_paused = TRUE], ret |-> Ok("unit")]

Fake_pause_recording(fb) ==
    LET counted == [fb EXCEPT !.pause_recording_count = @ + 1] IN
    IF ~counted.is_recording
    THEN [fb |-> counted, ret |-> Err(Internal("No recording in progress"))]
    ELSE IF counted.is_paused
    THEN [fb |-> counted, ret |-> Err(Internal("Recording is already paused"))]
    ELSE [fb |-> [counted EXCEPT !.is_paused = TRUE], ret |-> Ok("unit")]

Fake_resume_recording(fb) ==
    LET counted == [fb EXCEPT !.resume_recording_count = @ + 1] IN
    IF ~counted.is_recording
    THEN [fb |-> counted, ret |-> Err(Internal("No recording in progress"))]
    ELSE IF ~counted.is_paused
    THEN [fb |-> counted, ret |-> Err(Internal("Recording is not paused"))]
    ELSE [fb |-> [counted EXCEPT !.is_paused = FALSE], ret |-> Ok("unit")]

(***************************************************************************)
(* SpecFake: one FakeCaptureBackend driven by a single caller              *)
(***************************************************************************)
\* bound on the number of counted backend calls, and on the clock
MaxCalls == 4
MaxTime == 2

\* the node ids the callers pass to set_node_id
NodeIds == {42, 99}

\* failed capture_screenshot calls the history tells apart
MaxShotFailures == 1

FakeCalls(fb) ==
    fb.selection_count + fb.cancel_count + fb.start_recording_count
    + fb.stop_recording_count + fb.pause_recording_count + fb.resume_recording_count

InitFake ==
    /\ component = "fake"
    /\ fake \in {Fake_new, Fake_succeeding, Fake_permission_denied, Fake_portal_error}
    /\ fake_call = [op |-> "new", pre |-> fake, ret |-> Ok("unit"), began |-> None,
                    shot_failures |-> 0]
    /\ now = 0
    /\ SMIdle /\ LinuxIdle /\ TasksIdle /\ AppIdle

\* a call of operation op with outcome r; began is the config given to the
\* latest start_recording that returned Ok, shot_failures the number of
\* capture_screenshot calls that have failed so far (MaxShotFailures stands
\* for that many or more)
FakeCallBegan(op, r, began) ==
    /\ fake' = r.fb
    /\ fake_call' = [op |-> op, pre |-> fake, ret |-> r.ret, began |-> began,
                     shot_failures |-> fake_call.shot_failures]
    /\ UNCHANGED <<now, smVars, linuxVars, taskVars, appVars, component>>

FakeCall(op, r) == FakeCallBegan(op, r, fake_call.began)

FakeTick ==
    /\ now < MaxTime
    /\ now' = now + 1
    /\ UNCHANGED <<fake, fake_call, smVars, linuxVars, taskVars, appVars, component>>

FakeSetShouldSucceed ==
    \E succeed \in BOOLEAN :
        FakeCall("set_should_succeed",
                 [fb |-> Fake_set_should_succeed(fake, succeed), ret |-> Ok("unit")])

FakeSetNodeId ==
    \E node_id \in NodeIds :
        FakeCall("set_node_id", [fb |-> Fake_set_node_id(fake, node_id), ret |-> Ok("unit")])

FakeRequestSelection ==
    /\ FakeCalls(fake) < MaxCalls
    /\ \E cfg \in ValidConfigs :
           FakeCall("request_selection", Fake_request_selection(fake, cfg))

FakeCancelSelection ==
    /\ FakeCalls(fake) < MaxCalls
    /\ FakeCall("cancel_selection", Fake_cancel_selection(fake))

FakeStartRecording ==
    /\ FakeCalls(fake) < MaxCalls
    /\ \E sel \in Selections, cfg \in ValidConfigs :
           LET r == Fake_start_recording(fake, sel, cfg, now) IN
           FakeCallBegan("start_recording", r,
                         IF r.ret.ok THEN Some(cfg) ELSE fake_call.began)

FakeStopRecording ==
    /\ FakeCalls(fake) < MaxCalls
    /\ FakeCall("stop_recording", Fake_stop_recording(fake, now))

FakePauseRecording ==
    /\ FakeCalls(fake) < MaxCalls
    /\ FakeCall("pause_recording", Fake_pause_recording(fake))

FakeResumeRecording ==
    /\ FakeCalls(fake) < MaxCalls
    /\ FakeCall("resume_recording", Fake_resume_recording(fake))

\* capture_screenshot counts no call, so nothing bounds it but the failures
\* the history keeps
FakeCaptureScreenshot ==
    \E sel \in Selections, save_ok \in BOOLEAN :
       LET r == Fake_capture_screenshot(fake, sel, "/tmp/shot.png", save_ok) IN
       /\ fake' = r.fb
       /\ fake_call' = [op |-> "capture_screenshot", pre |-> fake, ret |-> r.ret,
                        began |-> fake_call.began,
                        shot_failures |-> IF r.ret.ok \/ fake_call.shot_failures = MaxShotFailures
                                          THEN fake_call.shot_failures
                                          ELSE fake_call.shot_failures + 1]
       /\ UNCHANGED <<now, smVars, linuxVars, taskVars, appVars, component>>

NextFake ==
    \/ FakeTick
    \/ FakeSetShouldSucceed
    \/ FakeSetNodeId
    \/ FakeRequestSelection
    \/ FakeCancelSelection
    \/ FakeStartRecording
    \/ FakeStopRecording
    \/ FakePauseRecording
    \/ FakeResumeRecording

SpecFake == InitFake /\ [][NextFake]_vars

\* SpecFakeShot: the same caller, taking screenshots as well
NextFakeShot ==
    \/ NextFake
    \/ FakeCaptureScreenshot

SpecFakeShot == InitFake /\ [][NextFakeShot]_vars

(***************************************************************************)
(* Properties of the fake backend                                          *)
(***************************************************************************)
\* what start_recording may not touch when it fails
FakeRecordingState(fb) ==
    <<fb.is_recording, fb.is_paused, fb.recording_output_path, fb.recording_start>>

\* every field but start_recording_count
FakeButStartCount(fb) == [fb EXCEPT !.start_recording_count = 0]

FakeFlags(fb) == <<fb.is_recording, fb.is_paused>>

\* C11: stop_recording on the fake backend returns Internal and changes no
\* flag when no recording is in progress; with a recording in progress it
\* returns Ok with the output_path of the config given to the start_recording
\* that began the recording, and leaves is_recording() and is_paused() false.
C11_FakeStopReturnsStartedPath ==
    fake_call.op = "stop_recording"
    => IF ~fake_call.pre.is_recording
       THEN /\ ~fake_call.ret.ok
            /\ fake_call.ret.error.kind = "Internal"
            /\ FakeFlags(fake) = FakeFlags(fake_call.pre)
            /\ FakeRecordingState(fake) = FakeRecordingState(fake_call.pre)
       ELSE /\ fake_call.ret.ok
            /\ is_some(fake_call.began)
            /\ fake_call.ret.value.path = unwrap(fake_call.began).output_path
            /\ ~fake.is_recording
            /\ ~fake.is_paused

\* a paused recording begun with the second config was stopped after time
\* had passed
C11_Witness ==
    /\ fake_call.op = "stop_recording"
    /\ fake_call.pre.is_recording
    /\ fake_call.pre.is_paused
    /\ fake_call.ret.ok
    /\ fake_call.ret.value.path = "/tmp/other.mkv"
    /\ fake_call.ret.value.duration_ms > 0
    /\ ~fake.is_recording /\ ~fake.is_paused

\* C14: on the fake backend pause_recording returns Internal and changes no
\* flag when nothing is recording or the recording is already paused, and
\* otherwise returns Ok and sets is_paused(); resume_recording returns
\* Internal and changes no flag when nothing is recording or the recording
\* is not paused, and otherwise returns Ok and clears is_paused(); neither
\* changes is_recording().
C14_FakePauseResumeSubState ==
    /\ fake_call.op = "pause_recording"
       => /\ fake.is_recording = fake_call.pre.is_recording
          /\ IF ~fake_call.pre.is_recording \/ fake_call.pre.is_paused
             THEN /\ ~fake_call.ret.ok
                  /\ fake_call.ret.error.kind = "Internal"
                  /\ FakeFlags(fake) = FakeFlags(fake_call.pre)
             ELSE fake_call.ret = Ok("unit") /\ fake.is_paused
    /\ fake_call.op = "resume_recording"
       => /\ fake.is_recording = fake_call.pre.is_recording
          /\ IF ~fake_call.pre.is_recording \/ ~fake_call.pre.is_paused
             THEN /\ ~fake_call.ret.ok
                  /\ fake_call.ret.error.kind = "Internal"
                  /\ FakeFlags(fake) = FakeFlags(fake_call.pre)
             ELSE fake_call.ret = Ok("unit") /\ ~fake.is_paused

\* a pause_recording of a recording that was already paused failed
C14_Witness ==
    /\ fake_call.op = "pause_recording"
    /\ fake_call.pre.is_recording
    /\ fake_call.pre.is_paused
    /\ fake_call.ret = Err(Internal("Recording is already paused"))
    /\ fake.is_paused

\* a resume_recording of a recording that was not paused failed
C14_ResumeWitness ==
    /\ fake_call.op = "resume_recording"
    /\ fake_call.pre.is_recording
    /\ ~fake_call.pre.is_paused
    /\ fake_call.ret = Err(Internal("Recording is not paused"))
    /\ ~fake.is_paused

(***************************************************************************)
(* capture/linux/encoding.rs: negotiation over the engine's registry       *)
(* An engine is what the media pipeline engine answers during one call:    *)
(* whether it initialises, which element names its registry knows, which   *)
(* of them can be instantiated, and whether it accepts a graph description *)
(***************************************************************************)
H264_ENCODERS == <<"vaapih264enc", "nvh264enc", "x264enc">>
AAC_ENCODERS  == <<"fdkaacenc", "voaacenc", "avenc_aac">>
OPUS_ENCODERS == <<"opusenc">>

Engine(init_ok, known, instantiable, launch_ok) ==
    [init_ok |-> init_ok, known |-> known, instantiable |-> instantiable,
     launch_ok |-> launch_ok]

\* mutant: an element counts as available as soon as the registry knows its
\* name
Creatable_by_name(engine, name) == name \in engine.known

\* ElementFactory::find(name) is Some and factory.create().build() is Ok
Creatable(engine, name) == name \in engine.known /\ name \in engine.instantiable

\* the first element of the list, from position i on, that can be created
RECURSIVE FirstCreatable(_, _, _)
FirstCreatable(engine, list, i) ==
    IF i > Len(list) THEN None
    ELSE IF Creatable(engine, list[i]) THEN Some(list[i])
    ELSE FirstCreatable(engine, list, i + 1)

detect_available_encoder(engine) ==
    IF ~engine.init_ok THEN None ELSE FirstCreatable(engine, H264_ENCODERS, 1)

get_muxer_for_container(container) ==
    IF container = "Mp4" THEN "mp4mux" ELSE "matroskamux"

\* mutant: no fallback to the AAC encoders for Mkv
detect_available_audio_encoder_own_family(engine, container) ==
    IF ~engine.init_ok THEN None
    ELSE FirstCreatable(engine, IF container = "Mp4" THEN AAC_ENCODERS ELSE OPUS_ENCODERS, 1)

\* mutant: each container falls back to the family of the other one
detect_available_audio_encoder_any_family(engine, container) ==
    IF ~engine.init_ok THEN None
    ELSE LET encoders == IF container = "Mp4" THEN AAC_ENCODERS ELSE OPUS_ENCODERS
             others == IF container = "Mp4" THEN OPUS_ENCODERS ELSE AAC_ENCODERS
             own == FirstCreatable(engine, encoders, 1)
         IN IF is_some(own) THEN own ELSE FirstCreatable(engine, others, 1)

detect_available_audio_encoder(engine, container) ==
    IF ~engine.init_ok THEN None
    ELSE LET encoders == IF container = "Mp4" THEN AAC_ENCODERS ELSE OPUS_ENCODERS
             own == FirstCreatable(engine, encoders, 1)
         IN IF is_some(own) THEN own
            ELSE IF container = "Mkv" THEN FirstCreatable(engine, AAC_ENCODERS, 1)
            ELSE None

get_system_audio_source == "@DEFAULT_MONITOR@"

(***************************************************************************)
(* capture/linux/pipeline.rs                                               *)
(* A pipeline value carries, beside the fields of RecordingPipeline, the   *)
(* run state of its graph and its history: whether end-of-stream was sent, *)
(* how often stop() ran, whether it was registered in a recording slot,    *)
(* taken out of one, and dropped.                                          *)
(***************************************************************************)
\* mutant: RecordingPipeline::new that negotiates an audio encoder whether
\* audio is requested or not
RecordingPipeline_new_always_audio(node_id, stream_fd, output_path, fps, container, audio, width, height, engine) ==
    IF ~engine.init_ok THEN Err(Internal("Failed to initialize GStreamer"))
    ELSE IF detect_available_encoder(engine) = None
    THEN Err(Internal("No H.264 encoder available"))
    ELSE IF detect_available_audio_encoder(engine, container) = None
    THEN Err(Internal("No audio encoder available"))
    ELSE IF ~engine.launch_ok THEN Err(Internal("Failed to create pipeline"))
    ELSE Ok([output_path |-> output_path,
             start_time |-> None,
             width |-> unwrap_or(width, 1920),
             height |-> unwrap_or(height, 1080),
             run |-> "Null",
             eos |-> FALSE,
             stops |-> 0,
             stored |-> FALSE,
             taken |-> FALSE,
             dropped |-> FALSE])

RecordingPipeline_new(node_id, stream_fd, output_path, fps, container, audio, width, height, engine) ==
    IF ~engine.init_ok THEN Err(Internal("Failed to initialize GStreamer"))
    ELSE IF detect_available_encoder(engine) = None
    THEN Err(Internal("No H.264 encoder available"))
    ELSE IF (audio.mic \/ audio.system)
            /\ detect_available_audio_encoder(engine, container) = None
    THEN Err(Internal("No audio encoder available"))
    ELSE IF ~engine.launch_ok THEN Err(Internal("Failed to create pipeline"))
    ELSE Ok([output_path |-> output_path,
             start_time |-> None,
             width |-> unwrap_or(width, 1920),
             height |-> unwrap_or(height, 1080),
             run |-> "Null",
             eos |-> FALSE,
             stops |-> 0,
             stored |-> FALSE,
             taken |-> FALSE,
             dropped |-> FALSE])

\* what the engine answers to the two set_state calls of start()
StartOutcomes == {"playing", "pause_failed", "play_failed"}

\* RecordingPipeline::start, with t the value of Instant::now()
RecordingPipeline_start(p, outcome, t) ==
    CASE outcome = "pause_failed" ->
            [p |-> p, ret |-> Err(Internal("Failed to pause pipeline for linking"))]
      [] outcome = "play_failed" ->
            [p |-> [p EXCEPT !.run = "Paused"],
             ret |-> Err(Internal("Failed to start pipeline"))]
      [] outcome = "playing" ->
            [p |-> [p EXCEPT !.run = "Playing", !.start_time = Some(t)],
             ret |-> Ok("unit")]

\* RecordingPipeline::pause / resume, with set_ok the answer of set_state
RecordingPipeline_pause(p, set_ok) ==
    IF set_ok THEN [p |-> [p EXCEPT !.run = "Paused"], ret |-> Ok("unit")]
    ELSE [p |-> p, ret |-> Err(Internal("Failed to pause pipeline"))]

RecordingPipeline_resume(p, set_ok) ==
    IF set_ok THEN [p |-> [p EXCEPT !.run = "Playing"], ret |-> Ok("unit")]
    ELSE [p |-> p, ret |-> Err(Internal("Failed to resume pipeline"))]

\* what the engine and the file system answer during stop(): whether the
\* bus exists, what ended the wait, whether the output file exists
StopOutcomes == [bus_ok : BOOLEAN, wait : {"Eos", "Error", "Timeout"},
                 file_exists : BOOLEAN]

\* mutant: a wait that times out is an error
RecordingPipeline_stop_timeout_fails(p, out, t) ==
    LET duration_ms == IF is_some(p.start_time) THEN t - unwrap(p.start_time) ELSE 0
        sent == [p EXCEPT !.eos = TRUE, !.stops = @ + 1]
        down == [sent EXCEPT !.run = "Null"]
    IN IF ~out.bus_ok
       THEN [p |-> sent, ret |-> Err(Internal("Failed to get pipeline bus"))]
       ELSE IF out.wait = "Error"
       THEN [p |-> down, ret |-> Err(Internal("Pipeline error"))]
       ELSE IF out.wait = "Timeout"
       THEN [p |-> down, ret |-> Err(Internal("Timed out waiting for EOS"))]
       ELSE IF ~out.file_exists
       THEN [p |-> down, ret |-> Err(Internal("Recording file was not created"))]
       ELSE [p |-> down,
             ret |-> Ok(RecordingResult(p.output_path, duration_ms, p.width, p.height))]

\* RecordingPipeline::stop, with t the time at which elapsed() is read
RecordingPipeline_stop(p, out, t) ==
    LET duration_ms == IF is_some(p.start_time) THEN t - unwrap(p.start_time) ELSE 0
        sent == [p EXCEPT !.eos = TRUE, !.stops = @ + 1]
        down == [sent EXCEPT !.run = "Null"]
    IN IF ~out.bus_ok
       THEN [p |-> sent, ret |-> Err(Internal("Failed to get pipeline bus"))]
       ELSE IF out.wait = "Error"
       THEN [p |-> down, ret |-> Err(Internal("Pipeline error"))]
       ELSE IF ~out.file_exists
       THEN [p |-> down, ret |-> Err(Internal("Recording file was not created"))]
       ELSE [p |-> down,
             ret |-> Ok(RecordingResult(p.output_path, duration_ms, p.width, p.height))]

(***************************************************************************)
(* capture/linux/backend.rs: LinuxCaptureBackend                           *)
(* Each operator is one critical section (or one lock-free stretch) of a   *)
(* backend operation, over the slot it locks and the pipelines.            *)
(***************************************************************************)
ActiveSession(node_id, pipewire_fd) == [node_id |-> node_id, pipewire_fd |-> pipewire_fd]

LinuxCaptureBackend_new == [session |-> None, recording |-> None]

\* mutant: Option::take that leaves the value in place
take_leaves(o) == [left |-> o, got |-> o]

\* Option::take
take(o) == [left |-> None, got |-> o]

\* the pipelines with pipeline id dropped, when the option names one
Dropped(pipes, o) ==
    IF is_some(o) THEN [pipes EXCEPT ![unwrap(o)].dropped = TRUE] ELSE pipes

\* what the authorization service answers to request_selection
PortalAnswers ==
    {Err(PermissionDenied("User cancelled selection")),
     Err(PortalError("Failed to create session")),
     Err(NoSourceAvailable("No streams returned from portal")),
     Ok([node_id |-> 42, pipewire_fd |-> 7, size |-> Some(<<64, 48>>)]),
     Ok([node_id |-> 99, pipewire_fd |-> 8, size |-> None])}

\* request_selection, the store of the session and the result returned
request_selection_store(stream) ==
    [session |-> Some(ActiveSession(stream.node_id, stream.pipewire_fd)),
     ret |-> Ok(SelectionResult(stream.node_id, Some(stream.pipewire_fd),
                                IF is_some(stream.size)
                                THEN Some(unwrap(stream.size)[1]) ELSE None,
                                IF is_some(stream.size)
                                THEN Some(unwrap(stream.size)[2]) ELSE None))]

\* what the engine and the file system answer during capture_screenshot:
\* whether the engine initialises, accepts the graph, starts playing and
\* has a bus, what ended the wait, the dimensions the pad probe stored
\* (0 x 0 when it stored none), whether the output file exists
ScreenshotOutcomes ==
    [init_ok : BOOLEAN, launch_ok : BOOLEAN, bus_ok : BOOLEAN,
     wait : {"Eos", "Error", "Timeout"}, file_exists : BOOLEAN, play_ok : BOOLEAN,
     probe : {<<0, 0>>, <<800, 600>>}]

\* LinuxCaptureBackend::capture_screenshot
capture_screenshot(sel, output_path, out) ==
    IF ~out.init_ok THEN Err(Internal("Failed to initialize GStreamer"))
    ELSE IF ~out.launch_ok THEN Err(Internal("Failed to create pipeline"))
    ELSE IF ~out.play_ok THEN Err(Internal("Failed to start pipeline"))
    ELSE IF ~out.bus_ok THEN Err(Internal("Failed to get pipeline bus"))
    ELSE IF out.wait = "Error" THEN Err(Internal("Pipeline error"))
    ELSE IF out.wait = "Timeout" THEN Err(Internal("Pipeline timed out"))
    ELSE LET final == IF out.probe[1] = 0 \/ out.probe[2] = 0
                      THEN IF is_some(sel.width) /\ is_some(sel.height)
                           THEN <<unwrap(sel.width), unwrap(sel.height)>>
                           ELSE <<1920, 1080>>
                      ELSE out.probe
         IN IF ~out.file_exists
            THEN Err(Internal("Screenshot file was not created"))
            ELSE Ok(ScreenshotResult(output_path, final[1], final[2]))

\* start_recording: "Check if already recording"
start_recording_check(rec) ==
    IF is_some(rec) THEN Err(Internal("Recording already in progress"))
    ELSE Ok("unit")

\* start_recording: "Create recording pipeline" and "Start the pipeline";
\* ret is Ok(id) with id the identity of the started pipeline (a pipeline
\* that fails to start is dropped at once and is not kept among pipes)
start_recording_build(pipes, sel, cfg, engine, outcome, t) ==
    LET built == RecordingPipeline_new(sel.node_id, sel.stream_fd, cfg.output_path,
                                       cfg.fps, cfg.container, cfg.audio,
                                       sel.width, sel.height, engine)
    IN IF ~built.ok THEN [pipes |-> pipes, ret |-> built]
       ELSE LET started == RecordingPipeline_start(built.value, outcome, t)
                id == Len(pipes) + 1
            IN IF ~started.ret.ok
               THEN [pipes |-> pipes, ret |-> started.ret]
               ELSE [pipes |-> Append(pipes, started.p), ret |-> Ok(id)]

\* start_recording: "Store the pipeline"; the value replaced is dropped
start_recording_store(rec, pipes, id) ==
    [recording |-> Some(id),
     pipes |-> [Dropped(pipes, rec) EXCEPT ![id].stored = TRUE],
     ret |-> Ok("unit")]

\* stop_recording: "Take the recording pipeline from storage"
stop_recording_take(rec, pipes) ==
    LET got == take(rec) IN
    IF got.got = None
    THEN [recording |-> got.left, pipes |-> pipes,
          ret |-> Err(Internal("No recording in progress"))]
    ELSE [recording |-> got.left,
          pipes |-> [pipes EXCEPT ![unwrap(got.got)].taken = TRUE],
          ret |-> Ok(unwrap(got.got))]

\* stop_recording: "Stop the pipeline and get the result"; the pipeline is
\* a local of the call and is dropped when the call returns
stop_recording_finalize(pipes, id, out, t) ==
    LET stopped == RecordingPipeline_stop(pipes[id], out, t) IN
    [pipes |-> [pipes EXCEPT ![id] = [stopped.p EXCEPT !.dropped = TRUE]],
     ret |-> stopped.ret]

\* mutant: pause_recording through a handle to the pipeline built last,
\* kept beside the slot
pause_recording_cached(rec, pipes, set_ok) ==
    IF pipes = <<>>
    THEN [pipes |-> pipes, ret |-> Err(Internal("No recording in progress"))]
    ELSE LET r == RecordingPipeline_pause(pipes[Len(pipes)], set_ok) IN
         [pipes |-> [pipes EXCEPT ![Len(pipes)] = r.p], ret |-> r.ret]

\* pause_recording / resume_recording, under the recording lock
pause_recording(rec, pipes, set_ok) ==
    IF rec = None
    THEN [pipes |-> pipes, ret |-> Err(Internal("No recording in progress"))]
    ELSE LET r == RecordingPipeline_pause(pipes[unwrap(rec)], set_ok) IN
         [pipes |-> [pipes EXCEPT ![unwrap(rec)] = r.p], ret |-> r.ret]

resume_recording(rec, pipes, set_ok) ==
    IF rec = None
    THEN [pipes |-> pipes, ret |-> Err(Internal("No recording in progress"))]
    ELSE LET r == RecordingPipeline_resume(pipes[unwrap(rec)], set_ok) IN
         [pipes |-> [pipes EXCEPT ![unwrap(rec)] = r.p], ret |-> r.ret]

(***************************************************************************)
(* SpecLinux: one LinuxCaptureBackend shared by two concurrent callers.    *)
(* A step is one critical section of an operation, or the stretch between  *)
(* two of them; a tokio Mutex is released at the end of each section.      *)
(* The clock stands still here: every Instant::now() reads the same time.  *)
(***************************************************************************)
\* bound on the number of pipelines built in one behaviour
MaxPipelines == 2

AllElements == {"vaapih264enc", "nvh264enc", "x264enc", "fdkaacenc", "voaacenc",
                "avenc_aac", "opusenc"}

\* the engines the calls of SpecLinux and SpecOrch meet
Engines ==
    {Engine(TRUE, AllElements, {"x264enc", "avenc_aac", "opusenc"}, TRUE),
     Engine(TRUE, {"x264enc", "opusenc"}, {"x264enc"}, TRUE),
     Engine(TRUE, {"vaapih264enc"}, {}, TRUE),
     Engine(TRUE, AllElements, AllElements, FALSE)}

\* the (selection, config) pairs the callers pass to start_recording
StartInputs ==
    {[sel |-> SelectionResult(42, None, Some(1920), Some(1080)),
      cfg |-> CaptureConfig(30, AudioConfig(FALSE, FALSE), "Mp4", "/tmp/test.mp4")],
     [sel |-> SelectionResult(99, Some(7), None, None),
      cfg |-> CaptureConfig(60, AudioConfig(TRUE, TRUE), "Mkv", "/tmp/other.mkv")]}

InitLinux ==
    /\ component = "linux"
    /\ SMIdle /\ FakeIdle /\ LinuxIdle /\ TasksIdle /\ AppIdle

\* task t returns r from operation op; ret is what the step just taken
\* returned to its caller, NoRet when that step returned nothing
Return(t, op, r) ==
    /\ pc' = [pc EXCEPT ![t] = "idle"]
    /\ frame' = [frame EXCEPT ![t] = NoFrame]
    /\ ret' = [task |-> t, op |-> op, result |-> r]

\* task t goes on to the suspension point at, with locals f
Goto(t, at, f) ==
    /\ pc' = [pc EXCEPT ![t] = at]
    /\ frame' = [frame EXCEPT ![t] = f]
    /\ ret' = NoRet

LinuxRest == UNCHANGED <<smVars, fakeVars, appVars, registry, component>>

\* the builds in flight count against MaxPipelines
PipelineBudget ==
    Len(pipelines) + Cardinality({t \in Tasks : pc[t] = "start_build"}) < MaxPipelines

Linux_request_selection(t) ==
    /\ pc[t] = "idle"
    /\ \E answer \in PortalAnswers :
          IF answer.ok
          THEN Goto(t, "request_store", [op |-> "request_selection", stream |-> answer.value])
          ELSE Return(t, "request_selection", answer)
    /\ UNCHANGED linuxVars
    /\ LinuxRest

Linux_request_selection_store(t) ==
    /\ pc[t] = "request_store"
    /\ LET r == request_selection_store(frame[t].stream) IN
          /\ session' = r.session
          /\ Return(t, "request_selection", r.ret)
    /\ UNCHANGED <<recording, pipelines>>
    /\ LinuxRest

\* mutant: cancel_selection fails when no session is held
LinuxCaptureBackend_cancel_selection_needs_session(ses) ==
    IF ses = None
    THEN [session |-> None, ret |-> Err(Internal("No selection in progress"))]
    ELSE [session |-> None, ret |-> Ok("unit")]

\* LinuxCaptureBackend::cancel_selection, one critical section on the
\* session slot
LinuxCaptureBackend_cancel_selection(ses) == [session |-> None, ret |-> Ok("unit")]

Linux_cancel_selection(t) ==
    /\ pc[t] = "idle"
    /\ LET r == LinuxCaptureBackend_cancel_selection(session) IN
          /\ session' = r.session
          /\ Return(t, "cancel_selection", r.ret)
    /\ UNCHANGED <<recording, pipelines>>
    /\ LinuxRest

Linux_start_recording_check(t) ==
    /\ pc[t] = "idle"
    /\ PipelineBudget
    /\ \E in \in StartInputs :
          LET r == start_recording_check(recording) IN
          IF r.ok
          THEN Goto(t, "start_build",
                    [op |-> "start_recording", sel |-> in.sel, cfg |-> in.cfg])
          ELSE Return(t, "start_recording", r)
    /\ UNCHANGED linuxVars
    /\ LinuxRest

Linux_start_recording_build(t) ==
    /\ pc[t] = "start_build"
    /\ \E engine \in Engines, outcome \in StartOutcomes :
          LET r == start_recording_build(pipelines, frame[t].sel, frame[t].cfg,
                                        engine, outcome, now) IN
          /\ pipelines' = r.pipes
          /\ IF r.ret.ok
             THEN Goto(t, "start_store", [op |-> "start_recording", pipeline |-> r.ret.value])
             ELSE Return(t, "start_recording", r.ret)
    /\ UNCHANGED <<session, recording>>
    /\ LinuxRest

Linux_start_recording_store(t) ==
    /\ pc[t] = "start_store"
    /\ LET r == start_recording_store(recording, pipelines, frame[t].pipeline) IN
          /\ recording' = r.recording
          /\ pipelines' = r.pipes
          /\ Return(t, "start_recording", r.ret)
    /\ UNCHANGED <<session>>
    /\ LinuxRest

Linux_stop_recording_take(t) ==
    /\ pc[t] = "idle"
    /\ LET r == stop_recording_take(recording, pipelines) IN
          /\ recording' = r.recording
          /\ pipelines' = r.pipes
          /\ IF r.ret.ok
             THEN Goto(t, "stop_finalize", [op |-> "stop_recording", pipeline |-> r.ret.value])
             ELSE Return(t, "stop_recording", r.ret)
    /\ UNCHANGED <<session>>
    /\ LinuxRest

Linux_stop_recording_finalize(t) ==
    /\ pc[t] = "stop_finalize"
    /\ \E out \in StopOutcomes :
          LET r == stop_recording_finalize(pipelines, frame[t].pipeline, out, now) IN
          /\ pipelines' = r.pipes
          /\ IF r.ret.ok
             THEN Goto(t, "stop_clear_session",
                       [op |-> "stop_recording", pipeline |-> frame[t].pipeline,
                        result |-> r.ret])
             ELSE Return(t, "stop_recording", r.ret)
    /\ UNCHANGED <<session, recording>>
    /\ LinuxRest

Linux_stop_recording_clear_session(t) ==
    /\ pc[t] = "stop_clear_session"
    /\ session' = None
    /\ Return(t, "stop_recording", frame[t].result)
    /\ UNCHANGED <<recording, pipelines>>
    /\ LinuxRest

Linux_pause_recording(t) ==
    /\ pc[t] = "idle"
    /\ \E set_ok \in BOOLEAN :
          LET r == pause_recording(recording, pipelines, set_ok) IN
          /\ pipelines' = r.pipes
          /\ Return(t, "pause_recording", r.ret)
    /\ UNCHANGED <<session, recording>>
    /\ LinuxRest

Linux_resume_recording(t) ==
    /\ pc[t] = "idle"
    /\ \E set_ok \in BOOLEAN :
          LET r == resume_recording(recording, pipelines, set_ok) IN
          /\ pipelines' = r.pipes
          /\ Return(t, "resume_recording", r.ret)
    /\ UNCHANGED <<session, recording>>
    /\ LinuxRest

NextLinux ==
    \/ \E t \in Tasks : Linux_request_selection(t)
    \/ \E t \in Tasks : Linux_request_selection_store(t)
    \/ \E t \in Tasks : Linux_cancel_selection(t)
    \/ \E t \in Tasks : Linux_start_recording_check(t)
    \/ \E t \in Tasks : Linux_start_recording_build(t)
    \/ \E t \in Tasks : Linux_start_recording_store(t)
    \/ \E t \in Tasks : Linux_stop_recording_take(t)
    \/ \E t \in Tasks : Linux_stop_recording_finalize(t)
    \/ \E t \in Tasks : Linux_stop_recording_clear_session(t)
    \/ \E t \in Tasks : Linux_pause_recording(t)
    \/ \E t \in Tasks : Linux_resume_recording(t)

SpecLinux == InitLinux /\ [][NextLinux]_vars

(***************************************************************************)
(* Properties of the Linux backend                                         *)
(***************************************************************************)
\* the pipelines registered by a start_recording and not taken by a stop
Registered == {i \in DOMAIN pipelines : pipelines[i].stored /\ ~pipelines[i].taken}

\* C8: of two start_recording calls on one backend whose recording slot is
\* empty at most one returns Ok (at most one pipeline is registered and not
\* yet taken by a stop), and the pipeline the successful call stored is
\* never replaced or dropped by the other call.
C8_OneStartWinsTheSlot ==
    /\ Cardinality(Registered) <= 1
    /\ \A i \in Registered : ~pipelines[i].dropped /\ recording = Some(i)

\* caller t returns from operation op in this step
Returns(t, op) ==
    /\ ret' # NoRet
    /\ ret'.task = t
    /\ ret'.op = op

\* caller t returns in this step from a stop_recording that had taken a
\* pipeline out of the slot
StopReturns(t) ==
    /\ pc[t] \in {"stop_finalize", "stop_clear_session"}
    /\ Returns(t, "stop_recording")

\* C12: when a stop_recording that found an active recording returns, with
\* Ok or with the error of the finalization, the session slot is empty and
\* the recording slot no longer holds the pipeline it stopped.
C12_StopEmptiesBothSlots ==
    [][\A t \in Tasks :
          StopReturns(t)
          => /\ session' = None
             /\ recording' # Some(frame[t].pipeline)]_vars

\* the pipeline the recording slot holds is in run state run
SlotRuns(run) ==
    /\ is_some(recording)
    /\ pipelines[unwrap(recording)].run = run

\* C13: pause_recording fails with Internal when the active recording is
\* already paused, resume_recording fails with Internal when it is not
\* paused, and both fail with Internal when the recording slot is empty.
C13_WrongSubStateIsRejected ==
    [][\A t \in Tasks :
          /\ Returns(t, "pause_recording") /\ (recording = None \/ SlotRuns("Paused"))
             => ~ret'.result.ok /\ ret'.result.error.kind = "Internal"
          /\ Returns(t, "resume_recording") /\ (recording = None \/ SlotRuns("Playing"))
             => ~ret'.result.ok /\ ret'.result.error.kind = "Internal"]_vars

\* the callers inside a stop_recording that hold pipeline i in this state
HoldsTaken(t, i) ==
    /\ pc[t] \in {"stop_finalize", "stop_clear_session"}
    /\ frame[t].pipeline = i

\* C15: a pause_recording or resume_recording that meets a stop_recording
\* either acts on the pipeline while it is still in the slot, or finds the
\* slot empty, fails with Internal and changes nothing; the run state of a
\* pipeline that stop_recording has taken is changed by that stop alone.
C15_PauseNeverTouchesTakenPipeline ==
    [][/\ \A t \in Tasks :
             Returns(t, "pause_recording") \/ Returns(t, "resume_recording")
             => IF recording = None
                THEN /\ ret'.result = Err(Internal("No recording in progress"))
                     /\ pipelines' = pipelines
                ELSE /\ ~pipelines[unwrap(recording)].taken
                     /\ \A i \in DOMAIN pipelines :
                           i # unwrap(recording) => pipelines'[i] = pipelines[i]
       /\ \A i \in DOMAIN pipelines :
             pipelines[i].taken /\ pipelines'[i].run # pipelines[i].run
             => \E t \in Tasks : HoldsTaken(t, i) /\ pc'[t] # pc[t]]_vars

\* a stop_recording holds the pipeline it took, still playing, while a
\* pause_recording has just failed on the empty slot
C15_Witness ==
    \E t, u \in Tasks :
       /\ t # u
       /\ component = "linux"
       /\ pc[t] = "stop_finalize"
       /\ pipelines[frame[t].pipeline].taken
       /\ pipelines[frame[t].pipeline].run = "Playing"
       /\ recording = None
       /\ ret = [task |-> u, op |-> "pause_recording",
                 result |-> Err(Internal("No recording in progress"))]

(***************************************************************************)
(* config.rs, ipc/errors.rs                                                *)
(***************************************************************************)
ConfigError(field, message) == [field |-> field, message |-> message]

\* mutant: the path is checked before the fps
validate_path_first(cfg) ==
    IF cfg.output_path = ""
    THEN Err(ConfigError("output_path", "Output path cannot be empty"))
    ELSE IF cfg.fps = 0 \/ cfg.fps > 60
    THEN Err(ConfigError("fps", "FPS must be between 1 and 60"))
    ELSE Ok("unit")

\* CaptureConfig::validate
validate(cfg) ==
    IF cfg.fps = 0 \/ cfg.fps > 60
    THEN Err(ConfigError("fps", "FPS must be between 1 and 60"))
    ELSE IF cfg.output_path = ""
    THEN Err(ConfigError("output_path", "Output path cannot be empty"))
    ELSE Ok("unit")

backend_error_to_capture_error(err) ==
    [code |-> CASE err.kind = "PermissionDenied"  -> "PermissionDenied"
                [] err.kind = "PortalError"       -> "PortalError"
                [] err.kind = "NoSourceAvailable" -> "PortalError"
                [] err.kind = "NotSupported"      -> "Unknown"
                [] err.kind = "Internal"          -> "Unknown",
     message |-> err.msg]

(***************************************************************************)
(* ipc/commands.rs over AppState (lib.rs).                                 *)
(* SpecOrch: the commands, invoked by two concurrent callers.  A step is   *)
(* one critical section of a command together with the lock-free code      *)
(* that touches nothing shared around it; the backend a command creates    *)
(* or has taken out of AppState is its own until it stores it.             *)
(***************************************************************************)
\* the configurations the UI passes to start_capture: one that validate()
\* accepts and one for each of its two rejections
Configs ==
    {CaptureConfig(30, AudioConfig(FALSE, FALSE), "Mp4", "/tmp/test.mp4"),
     CaptureConfig(0, AudioConfig(FALSE, FALSE), "Mp4", "/tmp/test.mp4"),
     CaptureConfig(30, AudioConfig(FALSE, FALSE), "Mp4", "")}

\* what the authorization service answers to the request_selection of
\* start_capture
CapturePortalAnswers ==
    {Err(PermissionDenied("User cancelled selection")),
     Err(NoSourceAvailable("No streams returned from portal")),
     Ok([node_id |-> 42, pipewire_fd |-> 7, size |-> Some(<<64, 48>>)])}

InitOrch ==
    /\ component = "orch"
    /\ SMIdle /\ FakeIdle /\ LinuxIdle /\ TasksIdle /\ AppIdle

OrchRest == UNCHANGED <<call, fakeVars, session, recording, registry, component>>

\* a command that is one critical section on the state machine: it applies
\* r, and on success clears config and selection when clears is set
SMCommand(t, name, r, clears) ==
    /\ pc[t] = "idle"
    /\ state_machine' = r.sm
    /\ IF r.ret.ok
       THEN /\ Return(t, name, Ok(r.ret.value))
            /\ IF clears
               THEN config' = None /\ selection' = None
               ELSE UNCHANGED <<config, selection>>
       ELSE /\ Return(t, name, Err(r.ret.error.message))
            /\ UNCHANGED <<config, selection>>
    /\ UNCHANGED <<backend, pipelines>>
    /\ OrchRest

\* mutant: start_capture that stores the config before it validates it
start_capture_stores_first(t, cfgs) ==
    /\ pc[t] = "idle"
    /\ \E cfg \in cfgs :
          LET v == validate(cfg) IN
          /\ config' = Some(cfg)
          /\ IF ~v.ok
             THEN LET error == [code |-> "InvalidConfig",
                                message |-> <<v.error.field, v.error.message>>] IN
                  /\ state_machine' = set_error(state_machine, error).sm
                  /\ Return(t, "start_capture", Err(error.message))
             ELSE /\ Goto(t, "capture_select", [op |-> "start_capture"])
                  /\ UNCHANGED state_machine
    /\ UNCHANGED <<selection, backend, pipelines>>
    /\ OrchRest

\* start_capture called with one of the configurations cfgs: "Validate
\* config" and "Store config"
start_capture(t, cfgs) ==
    /\ pc[t] = "idle"
    /\ \E cfg \in cfgs :
          LET v == validate(cfg) IN
          IF ~v.ok
          THEN LET error == [code |-> "InvalidConfig",
                             message |-> <<v.error.field, v.error.message>>] IN
               /\ state_machine' = set_error(state_machine, error).sm
               /\ Return(t, "start_capture", Err(error.message))
               /\ UNCHANGED config
          ELSE /\ config' = Some(cfg)
               /\ Goto(t, "capture_select", [op |-> "start_capture"])
               /\ UNCHANGED state_machine
    /\ UNCHANGED <<selection, backend, pipelines>>
    /\ OrchRest

Cmd_start_capture(t) == start_capture(t, Configs)

\* start_capture: "Transition to Selecting"
Cmd_start_capture_select(t) ==
    /\ pc[t] = "capture_select"
    /\ LET r == start_selecting(state_machine) IN
          /\ state_machine' = r.sm
          /\ IF r.ret.ok
             THEN Goto(t, "capture_portal", [op |-> "start_capture"])
             ELSE Return(t, "start_capture", Err(r.ret.error.message))
    /\ UNCHANGED <<config, selection, backend, pipelines>>
    /\ OrchRest

\* start_capture: request_selection on the backend of get_backend() answers;
\* "Store selection result", or "Transition to Error" and "Clear config"
Cmd_start_capture_portal(t) ==
    /\ pc[t] = "capture_portal"
    /\ \E answer \in CapturePortalAnswers :
          IF answer.ok
          THEN LET r == request_selection_store(answer.value) IN
               /\ selection' = Some(r.ret.value)
               /\ Goto(t, "capture_begin",
                       [op |-> "start_capture",
                        backend |-> [LinuxCaptureBackend_new EXCEPT !.session = r.session]])
               /\ UNCHANGED <<state_machine, config>>
          ELSE LET error == backend_error_to_capture_error(answer.error) IN
               /\ state_machine' = set_error(state_machine, error).sm
               /\ config' = None
               /\ Return(t, "start_capture", Err(error.message))
               /\ UNCHANGED selection
    /\ UNCHANGED <<backend, pipelines>>
    /\ OrchRest

\* start_capture: "Transition to Recording"; the backend of get_backend()
\* is dropped when the command returns
Cmd_start_capture_begin(t) ==
    /\ pc[t] = "capture_begin"
    /\ LET r == begin_recording(state_machine) IN
          /\ state_machine' = r.sm
          /\ IF r.ret.ok
             THEN Return(t, "start_capture", Ok(r.ret.value))
             ELSE Return(t, "start_capture", Err(r.ret.error.message))
    /\ UNCHANGED <<config, selection, backend, pipelines>>
    /\ OrchRest

Cmd_cancel_capture(t) ==
    SMCommand(t, "cancel_capture", cancel_selection(state_machine), TRUE)

Cmd_begin_recording(t) ==
    SMCommand(t, "begin_recording", begin_recording(state_machine), FALSE)

Cmd_pause_recording(t) ==
    SMCommand(t, "pause_recording", pause(state_machine), FALSE)

Cmd_resume_recording(t) ==
    SMCommand(t, "resume_recording", resume(state_machine), FALSE)

Cmd_stop_recording(t) ==
    SMCommand(t, "stop_recording", stop(state_machine), FALSE)

Cmd_finalize_complete(t) ==
    SMCommand(t, "finalize_complete", finalize_complete(state_machine), TRUE)

Cmd_reset_error(t) ==
    SMCommand(t, "reset_error", reset(state_machine), FALSE)

\* pause_recording_video / resume_recording_video: the lock on
\* AppState.backend is held across the backend call
Cmd_pause_recording_video(t) ==
    /\ pc[t] = "idle"
    /\ IF backend = None
       THEN /\ Return(t, "pause_recording_video", Err("No recording in progress"))
            /\ UNCHANGED pipelines
       ELSE \E set_ok \in BOOLEAN :
               LET r == pause_recording(unwrap(backend).recording, pipelines, set_ok) IN
               /\ pipelines' = r.pipes
               /\ Return(t, "pause_recording_video",
                         IF r.ret.ok THEN r.ret
                         ELSE Err(<<"Failed to pause recording", r.ret.error>>))
    /\ UNCHANGED <<state_machine, config, selection, backend>>
    /\ OrchRest

Cmd_resume_recording_video(t) ==
    /\ pc[t] = "idle"
    /\ IF backend = None
       THEN /\ Return(t, "resume_recording_video", Err("No recording in progress"))
            /\ UNCHANGED pipelines
       ELSE \E set_ok \in BOOLEAN :
               LET r == resume_recording(unwrap(backend).recording, pipelines, set_ok) IN
               /\ pipelines' = r.pipes
               /\ Return(t, "resume_recording_video",
                         IF r.ret.ok THEN r.ret
                         ELSE Err(<<"Failed to resume recording", r.ret.error>>))
    /\ UNCHANGED <<state_machine, config, selection, backend>>
    /\ OrchRest

\* start_recording_video: "Get stored config"
Cmd_start_recording_video(t) ==
    /\ pc[t] = "idle"
    /\ Len(pipelines) + Cardinality({u \in Tasks : pc[u] = "video_start"}) < MaxPipelines
    /\ IF config = None
       THEN Return(t, "start_recording_video",
                   Err("No capture config set. Call start_capture first."))
       ELSE Goto(t, "video_start", [op |-> "start_recording_video", cfg |-> unwrap(config)])
    /\ UNCHANGED <<state_machine, config, selection, backend, pipelines>>
    /\ OrchRest

\* LinuxCaptureBackend::start_recording on a backend no one else holds
start_recording(b, pipes, sel, cfg, engine, outcome, t) ==
    LET checked == start_recording_check(b.recording) IN
    IF ~checked.ok THEN [backend |-> b, pipes |-> pipes, ret |-> checked]
    ELSE LET built == start_recording_build(pipes, sel, cfg, engine, outcome, t) IN
         IF ~built.ret.ok THEN [backend |-> b, pipes |-> built.pipes, ret |-> built.ret]
         ELSE LET stored == start_recording_store(b.recording, built.pipes,
                                                  built.ret.value) IN
              [backend |-> [b EXCEPT !.recording = stored.recording],
               pipes |-> stored.pipes, ret |-> stored.ret]

\* LinuxCaptureBackend::stop_recording on a backend no one else holds
stop_recording(b, pipes, out, t) ==
    LET taken == stop_recording_take(b.recording, pipes) IN
    IF ~taken.ret.ok THEN [backend |-> b, pipes |-> pipes, ret |-> taken.ret]
    ELSE LET done == stop_recording_finalize(taken.pipes, taken.ret.value, out, t) IN
         IF ~done.ret.ok
         THEN [backend |-> [b EXCEPT !.recording = taken.recording],
               pipes |-> done.pipes, ret |-> done.ret]
         ELSE [backend |-> [b EXCEPT !.recording = taken.recording, !.session = None],
               pipes |-> done.pipes, ret |-> done.ret]

\* start_recording_video: "Get stored selection", "Create backend instance"
\* and "Start recording"
Cmd_start_recording_video_start(t) ==
    /\ pc[t] = "video_start"
    /\ IF selection = None
       THEN /\ Return(t, "start_recording_video",
                      Err("No selection available. Call start_capture first."))
            /\ UNCHANGED pipelines
       ELSE \E engine \in Engines, outcome \in StartOutcomes :
               LET r == start_recording(LinuxCaptureBackend_new, pipelines,
                                        unwrap(selection), frame[t].cfg,
                                        engine, outcome, now) IN
               /\ pipelines' = r.pipes
               /\ IF r.ret.ok
                  THEN Goto(t, "video_store",
                            [op |-> "start_recording_video", cfg |-> frame[t].cfg,
                             backend |-> r.backend])
                  ELSE Return(t, "start_recording_video",
                              Err(backend_error_to_capture_error(r.ret.error).message))
    /\ UNCHANGED <<state_machine, config, selection, backend>>
    /\ OrchRest

\* the pipelines once a command has dropped a backend: no command holds a
\* handle on a dropped pipeline any more, so the commands keep of it that it
\* was stored, taken and dropped, and not the run state it was dropped in
Released(pipes) ==
    [i \in DOMAIN pipes |->
        IF pipes[i].dropped THEN [pipes[i] EXCEPT !.run = "Dropped"] ELSE pipes[i]]

\* start_recording_video: "Store backend for later stop"; the backend that
\* was stored before is dropped, and its pipeline with it
Cmd_start_recording_video_store(t) ==
    /\ pc[t] = "video_store"
    /\ backend' = Some(frame[t].backend)
    /\ pipelines' = IF is_some(backend)
                    THEN Released(Dropped(pipelines, unwrap(backend).recording))
                    ELSE pipelines
    /\ Return(t, "start_recording_video", Ok("unit"))
    /\ UNCHANGED <<state_machine, config, selection>>
    /\ OrchRest

\* stop_recording_video: "Take backend from storage"
Cmd_stop_recording_video(t) ==
    /\ pc[t] = "idle"
    /\ LET got == take(backend) IN
          /\ backend' = got.left
          /\ IF got.got = None
             THEN Return(t, "stop_recording_video", Err("No recording in progress"))
             ELSE Goto(t, "video_stop",
                       [op |-> "stop_recording_video", backend |-> unwrap(got.got)])
    /\ UNCHANGED <<state_machine, config, selection, pipelines>>
    /\ OrchRest

\* stop_recording_video: "Stop recording" and, when it succeeded,
\* "Transition state to Finalizing then Idle"
Cmd_stop_recording_video_stop(t) ==
    /\ pc[t] = "video_stop"
    /\ \E out \in StopOutcomes :
          LET r == stop_recording(frame[t].backend, pipelines, out, now) IN
          /\ pipelines' = Released(r.pipes)
          /\ IF r.ret.ok
             THEN LET finalizing == stop(state_machine) IN
                  /\ state_machine' = IF finalizing.ret.ok
                                      THEN finalize_complete(finalizing.sm).sm
                                      ELSE finalizing.sm
                  /\ Goto(t, "video_clear_config",
                          [op |-> "stop_recording_video", result |-> r.ret])
             ELSE /\ Return(t, "stop_recording_video",
                            Err(backend_error_to_capture_error(r.ret.error).message))
                  /\ UNCHANGED state_machine
    /\ UNCHANGED <<config, selection, backend>>
    /\ OrchRest

\* stop_recording_video: "Clear config and selection"
Cmd_stop_recording_video_clear_config(t) ==
    /\ pc[t] = "video_clear_config"
    /\ config' = None
    /\ Goto(t, "video_clear_selection", frame[t])
    /\ UNCHANGED <<state_machine, selection, backend, pipelines>>
    /\ OrchRest

Cmd_stop_recording_video_clear_selection(t) ==
    /\ pc[t] = "video_clear_selection"
    /\ selection' = None
    /\ Return(t, "stop_recording_video", frame[t].result)
    /\ UNCHANGED <<state_machine, config, backend, pipelines>>
    /\ OrchRest

NextOrch ==
    \/ \E t \in Tasks : Cmd_start_capture(t)
    \/ \E t \in Tasks : Cmd_start_capture_select(t)
    \/ \E t \in Tasks : Cmd_start_capture_portal(t)
    \/ \E t \in Tasks : Cmd_start_capture_begin(t)
    \/ \E t \in Tasks : Cmd_cancel_capture(t)
    \/ \E t \in Tasks : Cmd_begin_recording(t)
    \/ \E t \in Tasks : Cmd_pause_recording(t)
    \/ \E t \in Tasks : Cmd_resume_recording(t)
    \/ \E t \in Tasks : Cmd_stop_recording(t)
    \/ \E t \in Tasks : Cmd_finalize_complete(t)
    \/ \E t \in Tasks : Cmd_reset_error(t)
    \/ \E t \in Tasks : Cmd_pause_recording_video(t)
    \/ \E t \in Tasks : Cmd_resume_recording_video(t)
    \/ \E t \in Tasks : Cmd_start_recording_video(t)
    \/ \E t \in Tasks : Cmd_start_recording_video_start(t)
    \/ \E t \in Tasks : Cmd_start_recording_video_store(t)
    \/ \E t \in Tasks : Cmd_stop_recording_video(t)
    \/ \E t \in Tasks : Cmd_stop_recording_video_stop(t)
    \/ \E t \in Tasks : Cmd_stop_recording_video_clear_config(t)
    \/ \E t \in Tasks : Cmd_stop_recording_video_clear_selection(t)

SpecOrch == InitOrch /\ [][NextOrch]_vars

(***************************************************************************)
(* SpecLinuxOrch: the two places that keep an active recording in a slot,  *)
(* the backend shared by its callers and the commands over AppState.       *)
(***************************************************************************)
InitLinuxOrch == InitLinux \/ InitOrch

NextLinuxOrch ==
    \/ component = "linux" /\ NextLinux
    \/ component = "orch" /\ NextOrch

SpecLinuxOrch == InitLinuxOrch /\ [][NextLinuxOrch]_vars

(***************************************************************************)
(* SpecSession: the commands that open and end a capture session, invoked  *)
(* by two concurrent callers, with a second configuration validate()       *)
(* accepts, so that a stored config can be told from the one a later       *)
(* start_capture passes.                                                   *)
(***************************************************************************)
SessionConfigs ==
    Configs \cup {CaptureConfig(60, AudioConfig(FALSE, FALSE), "Mp4", "/tmp/test.mp4"),
                  CaptureConfig(61, AudioConfig(FALSE, FALSE), "Mp4", "/tmp/test.mp4"),
                  CaptureConfig(0, AudioConfig(FALSE, FALSE), "Mp4", "")}

InitSession ==
    /\ component = "session"
    /\ SMIdle /\ FakeIdle /\ LinuxIdle /\ TasksIdle /\ AppIdle

Cmd_start_capture_session(t) == start_capture(t, SessionConfigs)

NextSession ==
    \/ \E t \in Tasks : Cmd_start_capture_session(t)
    \/ \E t \in Tasks : Cmd_start_capture_select(t)
    \/ \E t \in Tasks : Cmd_start_capture_portal(t)
    \/ \E t \in Tasks : Cmd_start_capture_begin(t)
    \/ \E t \in Tasks : Cmd_cancel_capture(t)
    \/ \E t \in Tasks : Cmd_begin_recording(t)
    \/ \E t \in Tasks : Cmd_pause_recording(t)
    \/ \E t \in Tasks : Cmd_resume_recording(t)
    \/ \E t \in Tasks : Cmd_stop_recording(t)
    \/ \E t \in Tasks : Cmd_finalize_complete(t)
    \/ \E t \in Tasks : Cmd_reset_error(t)

SpecSession == InitSession /\ [][NextSession]_vars

(***************************************************************************)
(* Properties of the commands and of the recording slots                   *)
(***************************************************************************)
\* C7: while a recording is registered in AppState.backend (a
\* start_recording_video succeeded and no stop_recording_video took it), no
\* start_recording_video returns Ok, and the registered backend stays the
\* same instance with its pipeline alive until a stop removes it.
C7_SecondStartIsRejected ==
    [][is_some(backend)
       => /\ \A t \in Tasks :
                pc[t] = "video_store" /\ pc'[t] = "idle" => ~ret'.result.ok
          /\ is_some(backend')
             => /\ backend' = backend
                /\ ~pipelines'[unwrap(unwrap(backend).recording)].dropped]_vars

\* the callers inside a LinuxCaptureBackend::stop_recording that hold pipeline i
LinuxStoppers(i) ==
    {t \in Tasks : /\ component = "linux"
                   /\ pc[t] \in {"stop_finalize", "stop_clear_session"}
                   /\ frame[t].pipeline = i}

\* the callers inside a stop_recording_video that hold the backend b
VideoStoppers(b) ==
    {t \in Tasks : /\ component = "orch"
                   /\ pc[t] = "video_stop"
                   /\ frame[t].backend = b}

\* no pipeline is stopped twice or held by two stop calls, and what a stop
\* call holds is no longer in the slot it was taken from
TakenOutOfTheSlot ==
    /\ \A i \in DOMAIN pipelines :
          /\ pipelines[i].stops <= 1
          /\ Cardinality(LinuxStoppers(i)) <= 1
          /\ LinuxStoppers(i) # {} => recording # Some(i)
    /\ \A t \in Tasks :
          component = "orch" /\ pc[t] = "video_stop"
          => /\ backend # Some(frame[t].backend)
             /\ Cardinality(VideoStoppers(frame[t].backend)) = 1

\* a stop call's critical section on the slot: it finds the slot full,
\* leaves with its content and the slot empty, or finds it empty and
\* returns "No recording in progress"
StopTakesOrFails ==
    \A t \in Tasks :
       /\ component = "linux" /\ pc[t] = "idle" /\ pc'[t] = "stop_finalize"
          => recording = Some(frame'[t].pipeline) /\ recording' = None
       /\ /\ component = "linux" /\ pc[t] = "idle"
          /\ ret'.task = t /\ ret'.op = "stop_recording"
          => /\ recording = None /\ recording' = None
             /\ ret'.result = Err(Internal("No recording in progress"))
       /\ component = "orch" /\ pc[t] = "idle" /\ pc'[t] = "video_stop"
          => backend = Some(frame'[t].backend) /\ backend' = None
       /\ /\ component = "orch" /\ pc[t] = "idle"
          /\ ret'.task = t /\ ret'.op = "stop_recording_video"
          => /\ backend = None /\ backend' = None
             /\ ret'.result = Err("No recording in progress")

\* C10: stop_recording on the Linux backend, and stop_recording_video over
\* AppState.backend, take the active recording out of its slot and clear the
\* slot in one critical section: of two concurrent stop calls exactly one
\* obtains the recording, the other finds the slot empty and fails with
\* "No recording in progress", and no pipeline is stopped twice.
C10_StopTakesAndClears ==
    /\ []TakenOutOfTheSlot
    /\ [][StopTakesOrFails]_vars

\* one caller holds the pipeline it took while the other caller's
\* stop_recording has just failed on the empty slot
C10_Witness ==
    \E t, u \in Tasks :
       /\ t # u
       /\ component = "linux"
       /\ pc[t] = "stop_finalize"
       /\ pipelines[frame[t].pipeline].stored
       /\ pipelines[frame[t].pipeline].taken
       /\ recording = None
       /\ ret = [task |-> u, op |-> "stop_recording",
                 result |-> Err(Internal("No recording in progress"))]

\* the same between two stop_recording_video commands
C10_VideoWitness ==
    \E t, u \in Tasks :
       /\ t # u
       /\ component = "orch"
       /\ pc[t] = "video_stop"
       /\ backend = None
       /\ ret = [task |-> u, op |-> "stop_recording_video",
                 result |-> Err("No recording in progress")]

\* the backends alive: the one in AppState.backend and the locals of the
\* commands in progress
HeldBackends ==
    (IF is_some(backend) THEN {unwrap(backend)} ELSE {})
    \cup {frame[t].backend :
            t \in {u \in Tasks : pc[u] \in {"capture_begin", "video_store", "video_stop"}}}

\* the PipeWire fd behind the stored selection is that of a session some
\* backend alive still holds
SelectionHeld ==
    is_some(selection) /\ is_some(unwrap(selection).stream_fd)
    => \E b \in HeldBackends :
          /\ is_some(b.session)
          /\ unwrap(b.session).pipewire_fd = unwrap(unwrap(selection).stream_fd)

\* C16: once start_capture has succeeded the session that request_selection
\* stored (portal session and PipeWire fd behind SelectionResult.stream_fd)
\* is still held while the selection is stored, and in particular when
\* start_recording_video reads the stored selection and starts a recording
\* with it.
C16_SessionHeldWhileSelectionStored ==
    /\ [](ret.op = "start_capture" /\ ret.result.ok => SelectionHeld)
    /\ [][\A t \in Tasks :
             pc[t] = "video_start" /\ pc'[t] = "video_store" => SelectionHeld]_vars

\* C17: once cancel_capture has succeeded AppState.selection stays empty
\* until a start_capture call is made; stated for the step that follows the
\* return of the cancel: unless that step is a call of start_capture, it
\* leaves the selection empty (so a request_selection that was in flight
\* when the session was cancelled does not store its result).
C17_NoSelectionAfterCancel ==
    [][ret.op = "cancel_capture" /\ ret.result.ok
       /\ ~(\E t \in Tasks : pc[t] = "idle" /\ pc'[t] = "capture_select")
       /\ ~(\E t \in Tasks : pc[t] = "idle" /\ Returns(t, "start_capture"))
       => selection' = None]_vars

\* a capture session is open in state st of the state machine
InSession(st) == st \in {"Selecting", "Recording", "Paused", "Finalizing"}

\* C18: the config start_capture stored for a session does not change while
\* that session lasts; in particular a start_capture issued while Selecting,
\* Recording, Paused or Finalizing, which the state machine rejects, leaves
\* the stored config as it was.
C18_ConfigFixedForSession ==
    [][/\ is_some(config)
       /\ InSession(state_machine.state)
       /\ InSession(state_machine'.state)
       => config' = config]_vars

\* caller t returns in this step the failure of a backend operation
BackendFailureReturns(t) ==
    /\ \/ pc[t] = "capture_portal" /\ Returns(t, "start_capture")
       \/ pc[t] = "video_start" /\ is_some(selection)
          /\ Returns(t, "start_recording_video")
       \/ pc[t] = "video_stop" /\ Returns(t, "stop_recording_video")
    /\ ~ret'.result.ok

\* C19: when a command returns the failure of a backend operation
\* (request_selection in start_capture, start_recording in
\* start_recording_video, stop_recording in stop_recording_video), the state
\* machine is in Error and last_error holds a code of the taxonomy and the
\* message returned.
C19_BackendFailureEntersError ==
    [][\A t \in Tasks :
          BackendFailureReturns(t)
          => /\ state_machine'.state = "Error"
             /\ is_some(state_machine'.last_error)
             /\ unwrap(state_machine'.last_error).code \in ErrorCode
             /\ unwrap(state_machine'.last_error).message = ret'.result.error]_vars

\* C20: whenever reset_error moves the state machine from Error to Idle,
\* AppState.config and AppState.selection are both empty.
C20_ResetFindsCleanSession ==
    [][\A t \in Tasks :
          /\ Returns(t, "reset_error")
          /\ state_machine.state = "Error"
          /\ state_machine'.state = "Idle"
          => config' = None /\ selection' = None]_vars

\* C21: AppState.backend holds a backend with an active recording only
\* while the state machine is in Recording, Paused or Finalizing.
C21_BackendOnlyWhileRecording ==
    is_some(backend) /\ is_some(unwrap(backend).recording)
    => state_machine.state \in {"Recording", "Paused", "Finalizing"}

\* the error start_capture records for a config that fails validation:
\* '<field>: <message>', the fps being reported before the path
InvalidConfigError(cfg) ==
    [code |-> "InvalidConfig",
     message |-> IF cfg.fps < 1 \/ cfg.fps > 60
                 THEN <<"fps", "FPS must be between 1 and 60">>
                 ELSE <<"output_path", "Output path cannot be empty">>]

\* C22: a start_capture with a config whose fps is outside 1..60 or whose
\* output_path is empty, called in any state, returns the error at once: it
\* stores no config, goes on neither to Selecting nor to request_selection,
\* and leaves the state machine in Error with code InvalidConfig and the
\* message it returns.
C22_InvalidConfigIsRejectedFirst ==
    [][\A t \in Tasks, cfg \in SessionConfigs :
          /\ cfg.fps < 1 \/ cfg.fps > 60 \/ cfg.output_path = ""
          /\ start_capture(t, {cfg})
          => /\ Returns(t, "start_capture")
             /\ ret'.result = Err(InvalidConfigError(cfg).message)
             /\ pc'[t] = "idle"
             /\ config' = config
             /\ selection' = selection
             /\ state_machine' = [state |-> "Error",
                                  last_error |-> Some(InvalidConfigError(cfg))]]_vars

\* an invalid start_capture has just returned during a session whose config
\* is stored
C22_Witness ==
    /\ ret.op = "start_capture"
    /\ ~ret.result.ok
    /\ state_machine.state = "Error"
    /\ unwrap(state_machine.last_error).code = "InvalidConfig"
    /\ ret.result.error = <<"fps", "FPS must be between 1 and 60">>
    /\ is_some(config)
    /\ is_some(selection)

(***************************************************************************)
(* SpecEncoding: the negotiation functions of capture/linux/encoding.rs    *)
(* and RecordingPipeline::new, called under every registry: each element   *)
(* name is unknown, known but not instantiable, or instantiable; the       *)
(* engine initialises or not, and accepts a graph description or not.      *)
(***************************************************************************)
ContainerFormat == {"Mp4", "Mkv"}

Registries ==
    UNION {{Engine(init_ok, known, instantiable, launch_ok) :
               init_ok \in BOOLEAN, instantiable \in SUBSET known, launch_ok \in BOOLEAN} :
           known \in SUBSET AllElements}

InitEncoding ==
    /\ component = "encoding"
    /\ registry \in Registries
    /\ session = None /\ recording = None /\ pipelines = <<>>
    /\ SMIdle /\ FakeIdle /\ TasksIdle /\ AppIdle

\* a call of function op with argument arg under the registry; the registry
\* is read, never written
EncodingCall(op, arg, result) ==
    /\ ret' = [op |-> op, task |-> "a", result |-> result, arg |-> arg]
    /\ UNCHANGED <<smVars, fakeVars, linuxVars, pc, frame, appVars, component>>

Enc_detect_available_encoder ==
    EncodingCall("detect_available_encoder", None, detect_available_encoder(registry))

Enc_detect_available_audio_encoder ==
    \E container \in ContainerFormat :
       EncodingCall("detect_available_audio_encoder", container,
                    detect_available_audio_encoder(registry, container))

\* the (audio, container) parts of the configs RecordingPipeline::new is
\* given
NewInputs == [audio : [system : BOOLEAN, mic : BOOLEAN], container : ContainerFormat]

Enc_RecordingPipeline_new ==
    \E in \in NewInputs :
       EncodingCall("RecordingPipeline::new", in,
                    RecordingPipeline_new(42, Some(7), "/tmp/test.mp4", 30, in.container,
                                          in.audio, Some(64), Some(48), registry))

\* start_recording on a fresh backend; the result carries, beside the value
\* returned, the backend and the pipelines the call leaves
Enc_start_recording ==
    \E in \in NewInputs, outcome \in StartOutcomes :
       LET r == start_recording(LinuxCaptureBackend_new, <<>>,
                                SelectionResult(42, Some(7), Some(64), Some(48)),
                                CaptureConfig(30, in.audio, in.container, "/tmp/test.mp4"),
                                registry, outcome, 0)
       IN EncodingCall("start_recording", in, r)

NextEncoding ==
    \/ Enc_detect_available_encoder
    \/ Enc_detect_available_audio_encoder
    \/ Enc_RecordingPipeline_new
    \/ Enc_start_recording

SpecEncoding == InitEncoding /\ [][NextEncoding]_vars

\* the first element of list that is instantiable under the registry, none
\* when there is none
FirstInstantiable(list) ==
    LET usable == {i \in 1..Len(list) : list[i] \in registry.instantiable} IN
    IF usable = {} THEN None
    ELSE Some(list[CHOOSE i \in usable : \A j \in usable : i <= j])

\* C23: under every registry detect_available_encoder returns the first of
\* vaapih264enc, nvh264enc, x264enc that is instantiable, skipping elements
\* that are only known by name, and none when none is instantiable or the
\* engine does not initialise; every call under the same registry returns
\* that same value.
C23_FirstInstantiableVideoEncoder ==
    ret.op = "detect_available_encoder"
    => ret.result = IF registry.init_ok
                    THEN FirstInstantiable(<<"vaapih264enc", "nvh264enc", "x264enc">>)
                    ELSE None

\* the software encoder is returned while both hardware encoders are known
\* by name and cannot be instantiated
C23_Witness ==
    /\ ret.op = "detect_available_encoder"
    /\ ret.result = Some("x264enc")
    /\ {"vaapih264enc", "nvh264enc"} \subseteq registry.known

\* an audio encoder negotiation has just returned for container; an engine
\* that does not initialise instantiates nothing
AudioNegotiated(container) ==
    /\ ret.op = "detect_available_audio_encoder"
    /\ ret.arg = container
    /\ registry.init_ok

\* C24 (as stated): for Mp4 and Mkv alike, when none of the container's own
\* audio encoders is instantiable, the encoders of the other container are
\* tried in priority order before none is returned.
C24_EachContainerFallsBack ==
    /\ AudioNegotiated("Mkv") /\ FirstInstantiable(<<"opusenc">>) = None
       => ret.result = FirstInstantiable(<<"fdkaacenc", "voaacenc", "avenc_aac">>)
    /\ AudioNegotiated("Mp4")
       /\ FirstInstantiable(<<"fdkaacenc", "voaacenc", "avenc_aac">>) = None
       => ret.result = FirstInstantiable(<<"opusenc">>)

\* C24 (amended): only Mkv falls back: when opusenc is not instantiable the
\* AAC encoders are tried in priority order; for Mp4, when no AAC encoder is
\* instantiable the result is none, whether opusenc is instantiable or not.
C24_OnlyMkvFallsBack ==
    /\ AudioNegotiated("Mkv") /\ FirstInstantiable(<<"opusenc">>) = None
       => ret.result = FirstInstantiable(<<"fdkaacenc", "voaacenc", "avenc_aac">>)
    /\ AudioNegotiated("Mp4")
       /\ FirstInstantiable(<<"fdkaacenc", "voaacenc", "avenc_aac">>) = None
       => ret.result = None

\* Mkv has fallen back to the second AAC encoder: opusenc and fdkaacenc are
\* known by name and not instantiable
C24_Witness ==
    /\ AudioNegotiated("Mkv")
    /\ {"opusenc", "fdkaacenc"} \subseteq registry.known \ registry.instantiable
    /\ ret.result = Some("voaacenc")

\* C25: under every registry, for Mp4 the result is the first instantiable
\* of fdkaacenc, voaacenc, avenc_aac, or none; for Mkv it is opusenc when
\* that is instantiable, otherwise the first instantiable AAC encoder,
\* otherwise none.
C25_AudioEncoderFamily ==
    ret.op = "detect_available_audio_encoder"
    => ret.result =
          IF ~registry.init_ok THEN None
          ELSE IF ret.arg = "Mkv" /\ "opusenc" \in registry.instantiable
          THEN Some("opusenc")
          ELSE FirstInstantiable(<<"fdkaacenc", "voaacenc", "avenc_aac">>)

\* Mp4 got the last AAC encoder while opusenc is instantiable and fdkaacenc
\* is known by name only
C25_Witness ==
    /\ AudioNegotiated("Mp4")
    /\ "opusenc" \in registry.instantiable
    /\ "fdkaacenc" \in registry.known \ registry.instantiable
    /\ ret.result = Some("avenc_aac")

\* RecordingPipeline::new fails under the registry for the input of the call
\* that has just returned
ConstructionFails ==
    \/ detect_available_encoder(registry) = None
    \/ /\ ret.arg.audio.mic \/ ret.arg.audio.system
       /\ detect_available_audio_encoder(registry, ret.arg.container) = None

\* C26: graph-description failures aside, RecordingPipeline::new fails,
\* with Internal, exactly when no video encoder is negotiated or audio is
\* requested and no audio encoder is negotiated for the container (so that
\* without audio requested the audio encoders do not matter); and a
\* start_recording whose construction fails leaves the recording slot empty
\* and keeps no pipeline.
C26_NewFailsExactlyWithoutEncoder ==
    /\ ret.op = "RecordingPipeline::new" /\ registry.launch_ok
       => /\ ~ret.result.ok <=> ConstructionFails
          /\ ~ret.result.ok => ret.result.error.kind = "Internal"
    /\ ret.op = "start_recording" /\ (ConstructionFails \/ ~registry.launch_ok)
       => /\ ~ret.result.ret.ok
          /\ ret.result.ret.error.kind = "Internal"
          /\ ret.result.backend.recording = None
          /\ ret.result.pipes = <<>>

\* a pipeline was constructed without audio under a registry with a video
\* encoder and no audio encoder at all
C26_Witness ==
    /\ ret.op = "RecordingPipeline::new"
    /\ ~ret.arg.audio.mic /\ ~ret.arg.audio.system
    /\ registry.instantiable \cap {"fdkaacenc", "voaacenc", "avenc_aac", "opusenc"} = {}
    /\ ret.result.ok

\* a start_recording with the microphone requested has just failed for
\* want of an audio encoder and registered nothing
C26_StartWitness ==
    /\ ret.op = "start_recording"
    /\ ret.arg.audio.mic
    /\ ret.result.ret = Err(Internal("No audio encoder available"))
    /\ ret.result.backend.recording = None

(***************************************************************************)
(* SpecScreenshot: capture_screenshot of the two backends, called with     *)
(* every selection shape and every answer of the engine.                   *)
(***************************************************************************)
\* selections with both dimensions, with none, and with a width only
ScreenshotSelections ==
    {SelectionResult(42, None, Some(64), Some(48)),
     SelectionResult(42, Some(7), None, None),
     SelectionResult(42, None, Some(64), None)}

InitScreenshot ==
    /\ component = "screenshot"
    /\ SMIdle /\ FakeIdle /\ LinuxIdle /\ TasksIdle /\ AppIdle

\* a call of capture_screenshot of backend kind with argument arg
ScreenshotCall(kind, arg, result) ==
    /\ ret' = [backend |-> kind, op |-> "capture_screenshot", task |-> "a",
               result |-> result, arg |-> arg]
    /\ UNCHANGED <<smVars, fakeVars, linuxVars, pc, frame, appVars, component>>

Shot_Fake_capture_screenshot ==
    \E fb \in {Fake_succeeding, Fake_permission_denied, Fake_portal_error},
       sel \in ScreenshotSelections, save_ok \in BOOLEAN :
       ScreenshotCall("fake", [selection |-> sel, out |-> [fake |-> fb, save_ok |-> save_ok],
                               probe |-> <<0, 0>>],
                      Fake_capture_screenshot(fb, sel, "/tmp/shot.png", save_ok).ret)

Shot_capture_screenshot ==
    \E sel \in ScreenshotSelections, out \in ScreenshotOutcomes :
       ScreenshotCall("linux", [selection |-> sel, out |-> out, probe |-> out.probe],
                      capture_screenshot(sel, "/tmp/shot.png", out))

NextScreenshot ==
    \/ Shot_Fake_capture_screenshot
    \/ Shot_capture_screenshot

SpecScreenshot == InitScreenshot /\ [][NextScreenshot]_vars

\* C27: on either backend, when the pipeline reported no frame dimensions, a
\* successful capture_screenshot returns the selection's width and height
\* if the selection has them, and 100 x 100 if the selection has none.
C27_ScreenshotDimensionFallback ==
    /\ ret.op = "capture_screenshot"
    /\ ret.result.ok
    /\ ret.arg.probe = <<0, 0>>
    => LET sel == ret.arg.selection
           got == <<ret.result.value.width, ret.result.value.height>>
       IN /\ is_some(sel.width) /\ is_some(sel.height)
             => got = <<unwrap(sel.width), unwrap(sel.height)>>
          /\ sel.width = None /\ sel.height = None => got = <<100, 100>>

(***************************************************************************)
(* Failure isolation of the fake backend's capture_screenshot              *)
(***************************************************************************)
\* C29: a capture_screenshot of the fake backend that fails changes none of
\* the backend's state (is_recording, is_paused, the stored recording path,
\* every counter), and a request_selection made while the backend is
\* configured to succeed returns Ok however many screenshots failed before.
C29_ScreenshotFailureIsIsolated ==
    /\ (fake_call.op = "capture_screenshot" /\ ~fake_call.ret.ok)
       => fake = fake_call.pre
    /\ (fake_call.op = "request_selection" /\ fake_call.pre.should_succeed)
       => fake_call.ret.ok

\* a request_selection that returned Ok after MaxShotFailures screenshots
\* had failed
C29_Witness ==
    /\ fake_call.op = "request_selection"
    /\ fake_call.pre.should_succeed
    /\ fake_call.shot_failures = MaxShotFailures
    /\ fake_call.ret.ok

\* a screenshot that failed on a backend that is recording
C29_FailureWitness ==
    /\ fake_call.op = "capture_screenshot"
    /\ ~fake_call.ret.ok
    /\ fake_call.pre.is_recording
    /\ fake_call.pre.selection_count > 0

(***************************************************************************)
(* SpecBackends: the two implementations of the CaptureBackend trait, the  *)
(* union of SpecFake and SpecLinux.                                        *)
(***************************************************************************)
InitBackends == InitFake \/ InitLinux

NextBackends ==
    \/ component = "fake" /\ NextFake
    \/ component = "linux" /\ NextLinux

SpecBackends == InitBackends /\ [][NextBackends]_vars

\* C28: cancel_selection returns Ok on every backend, whether or not a
\* session is held; on LinuxCaptureBackend the session slot is empty
\* afterwards and the recording slot is unchanged, and a second call changes
\* nothing and returns Ok as well.
C28_CancelSelectionAlwaysOk ==
    [][/\ (component = "fake" /\ FakeCancelSelection) => fake_call'.ret.ok
       /\ \A t \in Tasks :
             (component = "linux" /\ Linux_cancel_selection(t))
             => /\ ret'.result.ok
                /\ session' = None
                /\ recording' = recording
                /\ pipelines' = pipelines
                /\ session = None => <<session, recording, pipelines>>' = <<session, recording, pipelines>>]_vars

\* a cancel_selection of the Linux backend returned while no session was
\* held and a recording was in its slot
C28_Witness ==
    /\ component = "linux"
    /\ ret.op = "cancel_selection"
    /\ ret.result.ok
    /\ session = None
    /\ is_some(recording)

\* a cancel_selection of the fake backend returned Ok for the second time
C28_FakeWitness ==
    /\ component = "fake"
    /\ fake_call.op = "cancel_selection"
    /\ fake_call.ret.ok
    /\ fake.cancel_count = 2

(***************************************************************************)
(* SpecValidate: CaptureConfig::validate, called with every configuration  *)
(* over all frame rates of a u8 and over empty and non-empty paths.        *)
(***************************************************************************)
\* fps: u8
FpsValues == 0..255

OutputPaths == {"", " ", "/tmp/test.mp4"}

ValidateInputs ==
    {CaptureConfig(fps, AudioConfig(FALSE, FALSE), container, output_path) :
        fps \in FpsValues, container \in ContainerFormat, output_path \in OutputPaths}

InitValidate ==
    /\ component = "validate"
    /\ SMIdle /\ FakeIdle /\ LinuxIdle /\ TasksIdle /\ AppIdle

Val_validate ==
    \E cfg \in ValidateInputs :
       /\ ret' = [op |-> "validate", task |-> "a", result |-> validate(cfg), arg |-> cfg]
       /\ UNCHANGED <<smVars, fakeVars, linuxVars, pc, frame, appVars, component>>

NextValidate == Val_validate

SpecValidate == InitValidate /\ [][NextValidate]_vars

\* C30: validate returns Ok exactly when 1 <= fps <= 60 and output_path is
\* not empty; otherwise it returns a ConfigError whose field is 'fps' when
\* the fps is out of range, the path being empty or not, and 'output_path'
\* when only the path is empty.
C30_ValidateAcceptsExactlyValidConfigs ==
    ret.op = "validate"
    => LET cfg == ret.arg
           fps_ok == 1 <= cfg.fps /\ cfg.fps <= 60
           path_ok == cfg.output_path # ""
       IN /\ ret.result.ok <=> (fps_ok /\ path_ok)
          /\ ~fps_ok => ~ret.result.ok /\ ret.result.error.field = "fps"
          /\ (fps_ok /\ ~path_ok)
             => ~ret.result.ok /\ ret.result.error.field = "output_path"

\* a config with fps 0 and an empty path was rejected for its fps
C30_Witness ==
    /\ ret.op = "validate"
    /\ ret.arg.fps = 0
    /\ ret.arg.output_path = ""
    /\ ~ret.result.ok
    /\ ret.result.error.field = "fps"

\* a config with fps 60 was accepted
C30_OkWitness ==
    /\ ret.op = "validate"
    /\ ret.arg.fps = 60
    /\ ret.result.ok

(***************************************************************************)
(* The edge each transition operation is documented to perform             *)
(***************************************************************************)
\* the source states in the documentation comment of each operation
DocumentedSources == [start_selecting   |-> {"Idle"},
                      cancel_selection  |-> {"Selecting"},
                      begin_recording   |-> {"Selecting"},
                      pause             |-> {"Recording"},
                      resume            |-> {"Paused"},
                      stop              |-> {"Recording", "Paused"},
                      finalize_complete |-> {"Finalizing"},
                      reset             |-> {"Error"}]

\* C37: a transition operation succeeds only from the source states of its
\* documented edge, or as a no-op from its own target state; called from any
\* other state it is rejected with a TransitionError (reset in Selecting,
\* cancel_selection in Error or Finalizing, begin_recording in Paused,
\* resume in Selecting).
C37_OperationPerformsOnlyItsEdge ==
    (/\ call.op \in TransitionOps
     /\ call.pre.state \notin DocumentedSources[call.op]
     /\ call.pre.state # Target[call.op])
    => /\ ~call.ret.ok
       /\ state_machine = call.pre

(***************************************************************************)
(* SpecFakeRace: one FakeCaptureBackend shared (cloned) by two callers on  *)
(* different threads.  The recording operations hold no lock across their  *)
(* body and have no await: a step is one atomic load, store or fetch_add,  *)
(* or one critical section of a std Mutex.  The clock stands still.        *)
(***************************************************************************)
RaceConfig == CaptureConfig(30, AudioConfig(FALSE, FALSE), "Mp4", "/tmp/test.mp4")

InitFakeRace ==
    /\ component = "fake_race"
    /\ fake = Fake_new
    /\ fake_call = None
    /\ now = 0
    /\ SMIdle /\ LinuxIdle /\ TasksIdle /\ AppIdle

FakeRaceRest == UNCHANGED <<smVars, fake_call, now, linuxVars, appVars, component>>

\* start_recording
Race_start_count(t) ==
    /\ pc[t] = "idle"
    /\ FakeCalls(fake) < MaxCalls
    /\ fake' = [fake EXCEPT !.start_recording_count = @ + 1]
    /\ Goto(t, "start_should_succeed", [op |-> "start_recording"])
    /\ FakeRaceRest

Race_start_should_succeed(t) ==
    /\ pc[t] = "start_should_succeed"
    /\ IF ~fake.should_succeed
       THEN Return(t, "start_recording",
                   Err(FakeConfiguredError(fake, "Recording permission denied",
                                           "Recording portal error", "No source for recording")))
       ELSE Goto(t, "start_is_recording", frame[t])
    /\ UNCHANGED fake
    /\ FakeRaceRest

Race_start_is_recording(t) ==
    /\ pc[t] = "start_is_recording"
    /\ IF fake.is_recording
       THEN Return(t, "start_recording", Err(Internal("Recording already in progress")))
       ELSE Goto(t, "start_store_recording", frame[t])
    /\ UNCHANGED fake
    /\ FakeRaceRest

Race_start_store_recording(t) ==
    /\ pc[t] = "start_store_recording"
    /\ fake' = [fake EXCEPT !.is_recording = TRUE]
    /\ Goto(t, "start_store_start", frame[t])
    /\ FakeRaceRest

Race_start_store_start(t) ==
    /\ pc[t] = "start_store_start"
    /\ fake' = [fake EXCEPT !.recording_start = Some(now)]
    /\ Goto(t, "start_store_path", frame[t])
    /\ FakeRaceRest

Race_start_store_path(t) ==
    /\ pc[t] = "start_store_path"
    /\ fake' = [fake EXCEPT !.recording_output_path = Some(RaceConfig.output_path)]
    /\ Return(t, "start_recording", Ok("unit"))
    /\ FakeRaceRest

\* stop_recording
Race_stop_count(t) ==
    /\ pc[t] = "idle"
    /\ FakeCalls(fake) < MaxCalls
    /\ fake' = [fake EXCEPT !.stop_recording_count = @ + 1]
    /\ Goto(t, "stop_is_recording", [op |-> "stop_recording"])
    /\ FakeRaceRest

Race_stop_is_recording(t) ==
    /\ pc[t] = "stop_is_recording"
    /\ IF ~fake.is_recording
       THEN Return(t, "stop_recording", Err(Internal("No recording in progress")))
       ELSE Goto(t, "stop_read_start", frame[t])
    /\ UNCHANGED fake
    /\ FakeRaceRest

Race_stop_read_start(t) ==
    /\ pc[t] = "stop_read_start"
    /\ Goto(t, "stop_take_path",
            [op |-> "stop_recording",
             duration_ms |-> IF is_some(fake.recording_start)
                             THEN now - unwrap(fake.recording_start) ELSE 0])
    /\ UNCHANGED fake
    /\ FakeRaceRest

Race_stop_take_path(t) ==
    /\ pc[t] = "stop_take_path"
    /\ fake' = [fake EXCEPT !.recording_output_path = None]
    /\ Goto(t, "stop_store_recording",
            [op |-> "stop_recording", duration_ms |-> frame[t].duration_ms,
             output_path |-> unwrap_or(fake.recording_output_path, "/tmp/fake_recording.mp4")])
    /\ FakeRaceRest

Race_stop_store_recording(t) ==
    /\ pc[t] = "stop_store_recording"
    /\ fake' = [fake EXCEPT !.is_recording = FALSE]
    /\ Goto(t, "stop_store_paused", frame[t])
    /\ FakeRaceRest

Race_stop_store_paused(t) ==
    /\ pc[t] = "stop_store_paused"
    /\ fake' = [fake EXCEPT !.is_paused = FALSE]
    /\ Goto(t, "stop_clear_start", frame[t])
    /\ FakeRaceRest

Race_stop_clear_start(t) ==
    /\ pc[t] = "stop_clear_start"
    /\ fake' = [fake EXCEPT !.recording_start = None]
    /\ Return(t, "stop_recording",
              Ok(RecordingResult(frame[t].output_path, frame[t].duration_ms, 1920, 1080)))
    /\ FakeRaceRest

\* pause_recording
Race_pause_count(t) ==
    /\ pc[t] = "idle"
    /\ FakeCalls(fake) < MaxCalls
    /\ fake' = [fake EXCEPT !.pause_recording_count = @ + 1]
    /\ Goto(t, "pause_is_recording", [op |-> "pause_recording"])
    /\ FakeRaceRest

Race_pause_is_recording(t) ==
    /\ pc[t] = "pause_is_recording"
    /\ IF ~fake.is_recording
       THEN Return(t, "pause_recording", Err(Internal("No recording in progress")))
       ELSE Goto(t, "pause_is_paused", frame[t])
    /\ UNCHANGED fake
    /\ FakeRaceRest

Race_pause_is_paused(t) ==
    /\ pc[t] = "pause_is_paused"
    /\ IF fake.is_paused
       THEN Return(t, "pause_recording", Err(Internal("Recording is already paused")))
       ELSE Goto(t, "pause_store_paused", frame[t])
    /\ UNCHANGED fake
    /\ FakeRaceRest

Race_pause_store_paused(t) ==
    /\ pc[t] = "pause_store_paused"
    /\ fake' = [fake EXCEPT !.is_paused = TRUE]
    /\ Return(t, "pause_recording", Ok("unit"))
    /\ FakeRaceRest

NextFakeRace ==
    \/ \E t \in Tasks : Race_start_count(t)
    \/ \E t \in Tasks : Race_start_should_succeed(t)
    \/ \E t \in Tasks : Race_start_is_recording(t)
    \/ \E t \in Tasks : Race_start_store_recording(t)
    \/ \E t \in Tasks : Race_start_store_start(t)
    \/ \E t \in Tasks : Race_start_store_path(t)
    \/ \E t \in Tasks : Race_stop_count(t)
    \/ \E t \in Tasks : Race_stop_is_recording(t)
    \/ \E t \in Tasks : Race_stop_read_start(t)
    \/ \E t \in Tasks : Race_stop_take_path(t)
    \/ \E t \in Tasks : Race_stop_store_recording(t)
    \/ \E t \in Tasks : Race_stop_store_paused(t)
    \/ \E t \in Tasks : Race_stop_clear_start(t)
    \/ \E t \in Tasks : Race_pause_count(t)
    \/ \E t \in Tasks : Race_pause_is_recording(t)
    \/ \E t \in Tasks : Race_pause_is_paused(t)
    \/ \E t \in Tasks : Race_pause_store_paused(t)

SpecFakeRace == InitFakeRace /\ [][NextFakeRace]_vars

\* C31: whatever the interleaving of a pause_recording and a stop_recording
\* on the shared backend, once the calls have returned is_paused() implies
\* is_recording(): a pause that raced a stop never leaves the paused flag set
\* with no recording active.
C31_PausedImpliesRecordingWhenQuiet ==
    (\A t \in Tasks : pc[t] = "idle") => (fake.is_paused => fake.is_recording)

(***************************************************************************)
(* SpecStop: one RecordingPipeline used by its single owner (&mut self):   *)
(* new, start, pause, resume, and stop with its wait on the bus unfolded.  *)
(* A step of the wait is one second passing inside timed_pop, a message    *)
(* popped from the bus, or timed_pop running into its timeout.             *)
(***************************************************************************)
\* bus.timed_pop(ClockTime::from_seconds(5))
EosTimeout == 5

\* bound on the stop() calls made on one pipeline
MaxStops == 2

\* what timed_pop can hand to the loop: end-of-stream, an error, or any
\* other message (state change, warning, tag, ...)
BusMessages == {"Eos", "Error", "Other"}

InitStop ==
    /\ component = "stop"
    /\ SMIdle /\ FakeIdle /\ LinuxIdle /\ TasksIdle /\ AppIdle

StopRest == UNCHANGED <<smVars, fakeVars, session, recording, registry, appVars, component>>

\* the owner is idle and holds a pipeline
Owns == pc["a"] = "idle" /\ pipelines # <<>>

Pipe_new ==
    /\ pc["a"] = "idle"
    /\ pipelines = <<>>
    /\ \E in \in StartInputs, engine \in Engines :
          LET r == RecordingPipeline_new(in.sel.node_id, in.sel.stream_fd, in.cfg.output_path,
                                         in.cfg.fps, in.cfg.container, in.cfg.audio,
                                         in.sel.width, in.sel.height, engine) IN
          IF r.ok
          THEN pipelines' = <<r.value>> /\ Return("a", "new", Ok("pipeline"))
          ELSE pipelines' = pipelines /\ Return("a", "new", r)
    /\ StopRest

Pipe_start ==
    /\ Owns
    /\ \E outcome \in StartOutcomes :
          LET r == RecordingPipeline_start(pipelines[1], outcome, now) IN
          pipelines' = <<r.p>> /\ Return("a", "start", r.ret)
    /\ StopRest

Pipe_pause ==
    /\ Owns
    /\ \E set_ok \in BOOLEAN :
          LET r == RecordingPipeline_pause(pipelines[1], set_ok) IN
          pipelines' = <<r.p>> /\ Return("a", "pause", r.ret)
    /\ StopRest

Pipe_resume ==
    /\ Owns
    /\ \E set_ok \in BOOLEAN :
          LET r == RecordingPipeline_resume(pipelines[1], set_ok) IN
          pipelines' = <<r.p>> /\ Return("a", "resume", r.ret)
    /\ StopRest

\* stop() returns r; ret keeps, beside the value returned, how the wait
\* ended ("NoBus" when there was none) and whether the output file existed
StopReturn(r, wait, file_exists) ==
    /\ pc' = [pc EXCEPT !["a"] = "idle"]
    /\ frame' = [frame EXCEPT !["a"] = NoFrame]
    /\ ret' = [op |-> "stop", task |-> "a", result |-> r, wait |-> wait,
               file_exists |-> file_exists]

\* stop(): the duration is read and end-of-stream is sent; without a bus the
\* call returns here
Stop_send_eos(bus_ok) ==
    /\ Owns
    /\ pipelines[1].stops < MaxStops
    /\ IF bus_ok
       THEN /\ Goto("a", "stop_wait", [op |-> "stop", t0 |-> now, waited |-> 0])
            /\ UNCHANGED pipelines
       ELSE LET r == RecordingPipeline_stop(pipelines[1],
                        [bus_ok |-> FALSE, wait |-> "Timeout", file_exists |-> FALSE], now) IN
            pipelines' = <<r.p>> /\ StopReturn(r.ret, "NoBus", FALSE)
    /\ StopRest

Stop_begin == \E bus_ok \in BOOLEAN : Stop_send_eos(bus_ok)

\* a second passes inside timed_pop
Stop_wait_tick ==
    /\ pc["a"] = "stop_wait"
    /\ frame["a"].waited < EosTimeout
    /\ Goto("a", "stop_wait", [frame["a"] EXCEPT !.waited = @ + 1])
    /\ UNCHANGED pipelines
    /\ StopRest

\* timed_pop returns Some(msg): Eos and Error break the loop, any other
\* message starts the next timed_pop
Stop_message ==
    /\ pc["a"] = "stop_wait"
    /\ \E msg \in BusMessages :
          IF msg = "Other"
          THEN Goto("a", "stop_wait", [frame["a"] EXCEPT !.waited = 0])
          ELSE Goto("a", "stop_teardown", [op |-> "stop", t0 |-> frame["a"].t0, wait |-> msg])
    /\ UNCHANGED pipelines
    /\ StopRest

\* timed_pop returns None
Stop_timeout ==
    /\ pc["a"] = "stop_wait"
    /\ frame["a"].waited = EosTimeout
    /\ Goto("a", "stop_teardown", [op |-> "stop", t0 |-> frame["a"].t0, wait |-> "Timeout"])
    /\ UNCHANGED pipelines
    /\ StopRest

\* set_state(Null), result?, the check of the output file
Stop_verify(file_exists) ==
    /\ pc["a"] = "stop_teardown"
    /\ LET r == RecordingPipeline_stop(pipelines[1],
                    [bus_ok |-> TRUE, wait |-> frame["a"].wait, file_exists |-> file_exists],
                    frame["a"].t0) IN
       pipelines' = <<r.p>> /\ StopReturn(r.ret, frame["a"].wait, file_exists)
    /\ StopRest

Stop_teardown == \E file_exists \in BOOLEAN : Stop_verify(file_exists)

StopTick ==
    /\ pc["a"] = "idle"
    /\ now < MaxTime
    /\ now' = now + 1
    /\ UNCHANGED <<smVars, fake, fake_call, linuxVars, taskVars, appVars, component>>

NextStop ==
    \/ Pipe_new
    \/ Pipe_start
    \/ Pipe_pause
    \/ Pipe_resume
    \/ Stop_begin
    \/ Stop_wait_tick
    \/ Stop_message
    \/ Stop_timeout
    \/ Stop_teardown
    \/ StopTick

SpecStop == InitStop /\ [][NextStop]_vars

(***************************************************************************)
(* Properties of RecordingPipeline::stop                                   *)
(***************************************************************************)
\* C32: stop returns Ok, with the pipeline's output path and the dimensions
\* it was constructed with, exactly when the wait ended by end-of-stream or
\* by timeout and the output file exists; it returns Internal when an error
\* message ended the wait and when the output file does not exist; a timeout
\* by itself is never an error.
C32_StopOutcome ==
    ret.op = "stop"
    => /\ ret.result.ok <=> (ret.wait \in {"Eos", "Timeout"} /\ ret.file_exists)
       /\ ret.result.ok
          => /\ ret.result.value.path = pipelines[1].output_path
             /\ ret.result.value.width = pipelines[1].width
             /\ ret.result.value.height = pipelines[1].height
       /\ ~ret.result.ok => ret.result.error.kind = "Internal"
       /\ ret.wait = "Error" => ~ret.result.ok
       /\ (ret.wait = "Timeout" /\ ret.file_exists) => ret.result.ok

\* a stop whose wait timed out returned Ok, for a pipeline without
\* selection dimensions
C32_Witness ==
    /\ ret.op = "stop"
    /\ ret.wait = "Timeout"
    /\ ret.result.ok
    /\ ret.result.value.width = 1920
    /\ ret.result.value.path = "/tmp/other.mkv"

\* a stop that saw an error message returned Internal though the file exists
C32_ErrorWitness ==
    /\ ret.op = "stop"
    /\ ret.wait = "Error"
    /\ ret.file_exists
    /\ ~ret.result.ok

\* C33: stop sets the pipeline to the Null state on every path before it
\* returns, with Ok or with an error.
C33_StopAlwaysTearsDown ==
    ret.op = "stop" => pipelines[1].run = "Null"

\* C34: stop terminates: a wait for end-of-stream that has begun ends,
\* whatever other messages keep arriving on the bus.
C34_StopTerminates == (pc["a"] = "stop_wait") ~> (pc["a"] = "idle")

\* the thread inside stop() keeps running: time passes inside timed_pop, a
\* timed_pop whose time is up returns, and the code after the loop runs
SpecStopFair ==
    /\ SpecStop
    /\ WF_vars(Stop_wait_tick)
    /\ WF_vars(Stop_timeout)
    /\ WF_vars(Stop_teardown)

(***************************************************************************)
(* The graph description RecordingPipeline::new hands to parse::launch: a  *)
(* sequence of chains ('a ! b ! c'), each a sequence of elements.  An      *)
(* element is a factory with the name it is given and its properties; a    *)
(* reference to a named element ('mux.') has factory "ref".                *)
(***************************************************************************)
El(factory, label, args) == [factory |-> factory, label |-> label, args |-> args]

Plain(factory) == El(factory, "", <<>>)

Ref(label) == El("ref", label, <<>>)

\* 'pipewiresrc fd={} path={} client-name=opensnipping', without fd when the
\* selection has none
pipewiresrc(stream_fd, node_id) ==
    El("pipewiresrc", "", <<stream_fd, node_id, "opensnipping">>)

VideoBranch(src, video_encoder) ==
    <<src, Plain("videoconvert"), Plain("videoscale"), Plain(video_encoder)>>

\* mutant: with both sources enabled the system audio is chosen, without
\* mixing
pipeline_str_system_first(src, video_encoder, audio_encoder, muxer, audio, output_path) ==
    IF audio.system
    THEN << VideoBranch(src, video_encoder) \o <<Ref("mux")>>,
            <<El("pulsesrc", "", <<get_system_audio_source>>), Plain("audioconvert"),
              Plain("audioresample"), Plain(audio_encoder), Ref("mux")>>,
            <<El(muxer, "mux", <<>>), El("filesink", "", <<output_path>>)>> >>
    ELSE IF audio.mic
    THEN << VideoBranch(src, video_encoder) \o <<Ref("mux")>>,
            <<Plain("pulsesrc"), Plain("audioconvert"), Plain("audioresample"),
              Plain(audio_encoder), Ref("mux")>>,
            <<El(muxer, "mux", <<>>), El("filesink", "", <<output_path>>)>> >>
    ELSE << VideoBranch(src, video_encoder)
            \o <<Plain(muxer), El("filesink", "", <<output_path>>)>> >>

\* the four format! strings of RecordingPipeline::new; audio_encoder is read
\* only when a source is enabled
pipeline_str(src, video_encoder, audio_encoder, muxer, audio, output_path) ==
    IF audio.mic /\ audio.system
    THEN << VideoBranch(src, video_encoder) \o <<Ref("mux")>>,
            <<El("audiomixer", "mix", <<>>), Plain("audioconvert"), Plain("audioresample"),
              Plain(audio_encoder), Ref("mux")>>,
            <<Plain("pulsesrc"), Plain("audioconvert"), Plain("audioresample"), Ref("mix")>>,
            <<El("pulsesrc", "", <<get_system_audio_source>>), Plain("audioconvert"),
              Plain("audioresample"), Ref("mix")>>,
            <<El(muxer, "mux", <<>>), El("filesink", "", <<output_path>>)>> >>
    ELSE IF audio.system
    THEN << VideoBranch(src, video_encoder) \o <<Ref("mux")>>,
            <<El("pulsesrc", "", <<get_system_audio_source>>), Plain("audioconvert"),
              Plain("audioresample"), Plain(audio_encoder), Ref("mux")>>,
            <<El(muxer, "mux", <<>>), El("filesink", "", <<output_path>>)>> >>
    ELSE IF audio.mic
    THEN << VideoBranch(src, video_encoder) \o <<Ref("mux")>>,
            <<Plain("pulsesrc"), Plain("audioconvert"), Plain("audioresample"),
              Plain(audio_encoder), Ref("mux")>>,
            <<El(muxer, "mux", <<>>), El("filesink", "", <<output_path>>)>> >>
    ELSE << VideoBranch(src, video_encoder)
            \o <<Plain(muxer), El("filesink", "", <<output_path>>)>> >>

\* the description RecordingPipeline::new builds when it gets as far as
\* parse::launch; fps is a parameter the function never reads
RecordingPipeline_new_graph(node_id, stream_fd, output_path, fps, container, audio, engine) ==
    pipeline_str(pipewiresrc(stream_fd, node_id),
                 unwrap(detect_available_encoder(engine)),
                 IF audio.mic \/ audio.system
                 THEN unwrap(detect_available_audio_encoder(engine, container))
                 ELSE "none",
                 get_muxer_for_container(container), audio, output_path)

(***************************************************************************)
(* SpecGraph: RecordingPipeline::new called with every audio               *)
(* configuration, both containers, several frame rates, with and without   *)
(* a stream fd, under the engines of SpecLinux.                            *)
(***************************************************************************)
GraphFps == {1, 30, 60}

GraphInputs ==
    [fps : GraphFps, audio : [system : BOOLEAN, mic : BOOLEAN],
     container : ContainerFormat, stream_fd : {None, Some(7)}]

InitGraph ==
    /\ component = "graph"
    /\ SMIdle /\ FakeIdle /\ LinuxIdle /\ TasksIdle /\ AppIdle

\* the value returned, and with it the description handed to parse::launch
\* when the call got that far ("none" otherwise)
Graph_RecordingPipeline_new ==
    \E in \in GraphInputs, engine \in Engines :
       LET r == RecordingPipeline_new(42, in.stream_fd, "/tmp/test.mp4", in.fps,
                                      in.container, in.audio, None, None, engine)
           built == r.ok \/ r.error = Internal("Failed to create pipeline")
       IN /\ ret' = [op |-> "RecordingPipeline::new", task |-> "a", result |-> r,
                     arg |-> in,
                     graph |-> IF built
                               THEN RecordingPipeline_new_graph(42, in.stream_fd,
                                        "/tmp/test.mp4", in.fps, in.container, in.audio, engine)
                               ELSE <<>>]
          /\ UNCHANGED <<smVars, fakeVars, linuxVars, pc, frame, appVars, component>>

NextGraph == Graph_RecordingPipeline_new

SpecGraph == InitGraph /\ [][NextGraph]_vars

\* reading a description: positions, branches and what they feed
Positions(g) == {at \in (DOMAIN g) \X (1..8) : at[2] <= Len(g[at[1]])}

ElementsOf(g, factories) == {at \in Positions(g) : g[at[1]][at[2]].factory \in factories}

\* the chains that start at a source of the given kind and end at a
\* reference to the element labelled 'into'
Branches(g, src, into) ==
    {i \in DOMAIN g : g[i][1] = src /\ g[i][Len(g[i])] = Ref(into)}

MicSource == Plain("pulsesrc")

SystemSource == El("pulsesrc", "", <<get_system_audio_source>>)

AudioFactories ==
    {"pulsesrc", "audiomixer", "audioconvert", "audioresample"}
    \cup {AAC_ENCODERS[i] : i \in DOMAIN AAC_ENCODERS}
    \cup {OPUS_ENCODERS[i] : i \in DOMAIN OPUS_ENCODERS}

AudioEncoderFactories ==
    {AAC_ENCODERS[i] : i \in DOMAIN AAC_ENCODERS}
    \cup {OPUS_ENCODERS[i] : i \in DOMAIN OPUS_ENCODERS}

\* the muxer carries the name the branches refer to
NamedMuxer(g, container) ==
    \E at \in Positions(g) :
       g[at[1]][at[2]] = El(get_muxer_for_container(container), "mux", <<>>)

\* the chain that starts at the mixer, with exactly one audio encoder on it,
\* ending at the muxer
MixerOutputs(g) ==
    {i \in DOMAIN g :
        /\ g[i][1] = El("audiomixer", "mix", <<>>)
        /\ g[i][Len(g[i])] = Ref("mux")
        /\ Cardinality({j \in 1..Len(g[i]) : g[i][j].factory \in AudioEncoderFactories}) = 1}

GraphBuilt == ret.op = "RecordingPipeline::new" /\ ret.graph # <<>>

C36_VideoBranchConstrainsRate ==
    GraphBuilt =>
      \E i \in DOMAIN ret.graph :
         LET b == ret.graph[i]
         IN /\ Len(b) >= 5
            /\ b[1].factory = "pipewiresrc"
            /\ b[2].factory = "videoconvert"
            /\ b[3].factory = "videoscale"
            /\ b[4].factory \in {"videorate", "capsfilter"}
            /\ b[4].args = <<ret.arg.fps>>
            /\ b[5].factory \in {H264_ENCODERS[k] : k \in DOMAIN H264_ENCODERS}

\* caller t takes a step of start_recording that comes before 'Store the
\* pipeline': the check of the slot, or the construction and start
StartsBeforeStore(t) ==
    \/ pc[t] = "idle" /\ pc'[t] = "start_build"
    \/ pc[t] = "idle" /\ ret'.task = t /\ ret'.op = "start_recording"
    \/ pc[t] = "start_build" /\ pc'[t] # "start_build"

\* C38: a start_recording that returns an error leaves the recording state
\* of its backend as it was.  On FakeCaptureBackend is_recording(),
\* is_paused(), the stored path and start time and every other field but
\* start_recording_count are unchanged, and that counter grows by one.  On
\* LinuxCaptureBackend no step of a start_recording before 'Store the
\* pipeline' writes the recording slot, the step that returns the error
\* changes neither the slot nor a registered pipeline, and 'Store the
\* pipeline' never returns an error.
C38_FailedStartChangesNothing ==
    [][/\ (component = "fake" /\ FakeStartRecording /\ ~fake_call'.ret.ok)
          => /\ FakeRecordingState(fake') = FakeRecordingState(fake)
             /\ FakeButStartCount(fake') = FakeButStartCount(fake)
             /\ fake'.start_recording_count = fake.start_recording_count + 1
       /\ \A t \in Tasks :
             /\ (component = "linux" /\ StartsBeforeStore(t))
                => /\ recording' = recording
                   /\ ~ret'.result.ok => pipelines' = pipelines
             /\ (component = "linux" /\ pc[t] = "start_store" /\ pc'[t] = "idle")
                => ret'.result.ok]_vars

\* a start_recording of the Linux backend failed to build its pipeline
\* while the pipeline another caller had registered meanwhile was in the
\* recording slot
C38_Witness ==
    /\ component = "linux"
    /\ ret.op = "start_recording"
    /\ ~ret.result.ok
    /\ ret.result.error # Internal("Recording already in progress")
    /\ is_some(recording)
    /\ pipelines[unwrap(recording)].stored

\* a start_recording of a fake backend configured to fail returned its
\* error while nothing was being recorded
C38_FakeWitness ==
    /\ component = "fake"
    /\ fake_call.op = "start_recording"
    /\ ~fake_call.ret.ok
    /\ ~fake_call.pre.is_recording
    /\ ~fake.is_recording
    /\ fake.recording_output_path = None

\* the callers whose start_capture is awaiting backend.request_selection
AwaitingSelection == {t \in Tasks : pc[t] = "capture_portal"}

\* C39: at most one request_selection is in flight at any time, and a
\* start_capture issued while the state machine is Selecting is rejected
\* without calling request_selection and without overwriting the stored
\* config.
C39_OneSelectionInFlight ==
    /\ [](Cardinality(AwaitingSelection) <= 1)
    /\ [][\A t \in Tasks :
             /\ (state_machine.state = "Selecting" /\ Cmd_start_capture_session(t))
                => config' = config
             /\ (state_machine.state = "Selecting" /\ Cmd_start_capture_select(t))
                => /\ pc'[t] = "idle"
                   /\ ~ret'.result.ok
                   /\ AwaitingSelection' = AwaitingSelection]_vars

(***************************************************************************)
(* events.rs, ipc/emit.rs: the events a command hands to app.emit.  They   *)
(* are outputs of a step, not state: Emitted(t) is the sequence of events  *)
(* the step of caller t emits, in order.                                   *)
(***************************************************************************)
StateChangedEvent(current, previous) ==
    [event |-> "capture:state_changed", state |-> current, previous |-> previous]

ErrorEvent(error) == [event |-> "capture:error", error |-> error]

SelectionCompleteEvent(sel) == [event |-> "capture:selection_complete", selection |-> sel]

emit_state_change(previous, current) == <<StateChangedEvent(current, previous)>>

emit_error(error) == <<ErrorEvent(error)>>

\* `let previous = sm.state(); match sm.op() { Ok(new_state) =>
\* emit_state_change(&app, previous, new_state), Err(e) => .. }`, with r the
\* outcome of sm.op()
EmitOnOk(sm, r) ==
    IF r.ret.ok THEN emit_state_change(sm.state, r.ret.value) ELSE <<>>

\* the session commands, by the step caller t takes
Emitted(t) ==
    CASE Cmd_start_capture_session(t) ->
            IF pc'[t] = "idle" THEN emit_error(unwrap(state_machine'.last_error)) ELSE <<>>
      [] Cmd_start_capture_select(t) -> EmitOnOk(state_machine, start_selecting(state_machine))
      [] Cmd_start_capture_portal(t) ->
            IF pc'[t] = "idle" THEN emit_error(unwrap(state_machine'.last_error))
            ELSE <<SelectionCompleteEvent(unwrap(selection'))>>
      [] Cmd_start_capture_begin(t) -> EmitOnOk(state_machine, begin_recording(state_machine))
      [] Cmd_cancel_capture(t) -> EmitOnOk(state_machine, cancel_selection(state_machine))
      [] Cmd_begin_recording(t) -> EmitOnOk(state_machine, begin_recording(state_machine))
      [] Cmd_pause_recording(t) -> EmitOnOk(state_machine, pause(state_machine))
      [] Cmd_resume_recording(t) -> EmitOnOk(state_machine, resume(state_machine))
      [] Cmd_stop_recording(t) -> EmitOnOk(state_machine, stop(state_machine))
      [] Cmd_finalize_complete(t) -> EmitOnOk(state_machine, finalize_complete(state_machine))
      [] Cmd_reset_error(t) -> EmitOnOk(state_machine, reset(state_machine))
      [] OTHER -> <<>>

\* caller t takes a step of a session command
SessionStep(t) ==
    \/ Cmd_start_capture_session(t) \/ Cmd_start_capture_select(t)
    \/ Cmd_start_capture_portal(t) \/ Cmd_start_capture_begin(t)
    \/ Cmd_cancel_capture(t) \/ Cmd_begin_recording(t) \/ Cmd_pause_recording(t)
    \/ Cmd_resume_recording(t) \/ Cmd_stop_recording(t) \/ Cmd_finalize_complete(t)
    \/ Cmd_reset_error(t)

StateChanges(events) == SelectSeq(events, LAMBDA ev : ev.event = "capture:state_changed")

\* C40: every change of the state machine's state made by a command is
\* announced by a state-changed event of that command whose previous is the
\* old state and whose state is the new one, and a command emits no
\* state-changed event that names another state than the one the machine
\* is in afterwards (so the state of the latest state-changed event is
\* state(), also after the machine entered Error).
C40_EventsTrackState ==
    [][\A t \in Tasks :
          SessionStep(t) =>
             LET changes == StateChanges(Emitted(t)) IN
             /\ state_machine'.state # state_machine.state
                => /\ changes # <<>>
                   /\ changes[1].previous = state_machine.state
             /\ changes # <<>>
                => changes[Len(changes)].state = state_machine'.state]_vars

====
